---- MODULE Spec2Model ----
(***************************************************************************)
(* ScreenControlAgent: the task plan model, the recovery planner, the       *)
(* plan-execute-verify loop of ScreenControlAgent, the subtask mode of the  *)
(* LLM controllers, the mark table of OpenAILLMController, the element     *)
(* detector, the Set-of-Mark annotator and the element grounder.            *)
(*                                                                          *)
(* One variable `driver` says which component a behaviour exercises:        *)
(*   "plan"     the TaskPlan API called directly (start, advance)           *)
(*   "recovery" the ErrorRecovery API called directly (can_recover)         *)
(*   "agent"    ScreenControlAgent.run                                      *)
(*   "ctl"      LLMController / OpenAILLMController.run in subtask mode     *)
(*   "tools"    OpenAILLMController._execute_tool and the mark table        *)
(*   "detect"   HybridElementDetector.detect                                *)
(*   "annotate" SoMAnnotator.annotate                                       *)
(*   "ground"   ElementGrounder.ground                                      *)
(*   "strategy" ErrorRecovery.analyze_error and get_recovery_strategy       *)
(*   "direct"   LLMController.run without decomposition (_run_direct)       *)
(*   "cache"    ElementCache (memory/short_term.py)                         *)
(***************************************************************************)
EXTENDS Integers, Sequences, FiniteSets, TLC

(* ---------------------------- bounds ----------------------------------- *)
MaxSubtasks == 3
MaxOverrun == 2
MaxCeiling == 2
MaxAttemptsArg == 4
MaxSteps == 2
MaxAgentSubtasks == 1
MaxRetries == 1
MaxMarks == 2
MaxCoord == 3
MaxUia == 1
MaxCdp == 2
MaxElems == 2
ScreenSize == 16
MaxTree == 2
MaxGroundCalls == 2
MaxStrategyCalls == 4
MaxAttempt == 1
MaxConvSteps == 3
MaxConvRetries == 2
MaxCacheSize == 2
MaxTtl == 1
MaxClock == 2
MaxCacheCoord == 2

(* ----------------------- program constants ----------------------------- *)
PENDING == "pending"
IN_PROGRESS == "in_progress"
COMPLETED == "completed"
FAILED == "failed"
SKIPPED == "skipped"

SubtaskStatus == {PENDING, IN_PROGRESS, COMPLETED, FAILED, SKIPPED}

ErrorType ==
  {"click_missed", "element_not_found", "element_moved", "popup_blocked",
   "typing_failed", "timeout", "permission_denied", "unexpected_state",
   "unknown"}

VARIABLES
  driver,                 \* which component this behaviour exercises
  subtasks,               \* TaskPlan.subtasks: the status of each subtask, in order
  current_index,          \* TaskPlan.current_index (0-based, as in the source)
  plan_call,              \* the last TaskPlan call: [op, pre_index, pre_len, ret]
  max_recovery_attempts,  \* ErrorRecovery.max_recovery_attempts (configuration)
  cr_call,                \* the last can_recover call: [kind, total, ret]
  attempt_counts,         \* ErrorRecovery._attempt_counts: <<kind, strategy>> -> count
  pc,                     \* where the running control loop is
  call_site,              \* which call of _execute_step runs: "first" or "retry"
  step_count,             \* AgentState.step_count / ControllerState.step_count
  max_steps,              \* the step budget of the run
  is_completed,           \* AgentState.is_completed / ControllerState.is_completed
  status,                 \* ScreenControlAgent.status
  planned,                \* the action the planner returned for the running step
  last_action,            \* AgentState.last_action
  last_verification,      \* AgentState.last_verification
  recovery_attempts,      \* AgentState.recovery_attempts
  error_count,            \* len(AgentState.error_history)
  last_error,             \* AgentState.error_history[-1]
  step_success,           \* the value the last _execute_step call returned
  cur_sub,                \* AgentState.current_subtask (1-based position, 0 = None)
  run_result,             \* how run ended: "none", "true", "false" or "raised"
  saved,                  \* the success flag given to memory.save_session, or "none"
  error_recovery_on,      \* ScreenControlAgent.error_recovery is not None
  verify_each_step,       \* ScreenControlAgent.verify_each_step
  completion_reported,    \* history: a step of this run reported task completion
  first_plan_failed,      \* history: the first planning call of the running step raised
  events_at_step_start,   \* history: error_count when the running step began
  steps_begun,            \* history: loop iterations of run that began a step
  step_issues,            \* history: the step's own verification reported issues
  agent_stopped,                \* history: AgentThread.stop was called during the run
  exc_raised,             \* history: the collaborator whose exception left a step
  reflection_on,          \* LLMController.reflection is not None
  max_retries,            \* ReflectionWorkflow.max_retries
  is_failed,              \* ControllerState.is_failed
  c_sub,                  \* the subtask of the for loop of _run_with_subtasks (position)
  attempt,                \* the attempt of the for loop of _execute_subtask_with_reflection
  subtask_steps,          \* _execute_subtask_actions: subtask_steps
  max_subtask_steps,      \* _execute_subtask_actions: max_subtask_steps
  subtask_done,           \* _execute_subtask_actions: subtask_done
  subtask_actions,        \* len(ControllerState.subtask_actions)
  actions_before,         \* _execute_subtask_with_reflection: actions_before
  sub_success,            \* what _execute_subtask_with_reflection returned
  worked_on,              \* history: the subtasks started or given a model call
  failed_at,              \* history: the subtask whose attempts returned False
  passed,                 \* history: the subtasks that passed reflection verification
  stop_requested,         \* history: LLMControllerThread.stop() was called
  calls_after_stop,       \* history: model calls begun after the stop, up to 2
  memory_on,              \* ReflectionWorkflow.memory_manager is set (configuration)
  _attempts,              \* ReflectionWorkflow._attempts: records per subtask (position)
  messages,               \* ControllerState.messages: the kind of each message
  sent,                   \* history: the messages given to the last model call
  som_map,                \* OpenAILLMController._current_som_map: its mark ids
  stale,                  \* history: an input was dispatched since the marks were issued
  last_tool,              \* the last _execute_tool call and what it did
  uia_elements,           \* HybridElementDetector.detect: what _detect_uia returned
  cdp_elements,           \* HybridElementDetector.detect: what _detect_cdp returned
  merged,                 \* what detect returned, or NotCalled
  ann_elements,           \* SoMAnnotator.annotate: the elements argument
  max_marks,              \* SoMAnnotator.max_marks
  mark_map,               \* what annotate returned as mark table, or NotCalled
  g_tree,                 \* UIElementTree.all_elements given to ground
  g_screen,               \* the screen_size given to ground
  grounder,               \* the fields of the ElementGrounder
  g_desc,                 \* the ElementDescription given to ground
  g_scores,               \* what _score_element returned for each eligible element
  g_result,               \* what the last ground call returned, or NotCalled
  g_first,                \* history: what the first ground call returned
  g_calls,                \* history: the ground calls made with g_desc
  g_other_called,         \* history: ground was called with another description
  ae_call,                \* the analyze_error call before the last strategy call
  gs_call,                \* the last get_recovery_strategy call: [kind, attempt, fresh, ret]
  gs_calls,               \* history: the get_recovery_strategy calls made directly
  returned,               \* history: <<kind, strategy>> -> how often such a call returned it
  _cache,                 \* ElementCache._cache: the entries [key, coords, timestamp], oldest first
  max_size,               \* ElementCache.max_size (configuration)
  ttl_seconds,            \* ElementCache.ttl_seconds (configuration)
  clock,                  \* what datetime.now() returns, in seconds
  stored,                 \* history: the set calls whose entry is still in force
  ec_call                 \* the last ElementCache call

planVars == <<subtasks, current_index, plan_call>>
recVars == <<max_recovery_attempts, cr_call, attempt_counts>>
loopVars == <<pc, step_count, max_steps, is_completed, run_result, saved>>
agentVars ==
  <<call_site, status, planned, last_action, last_verification,
    recovery_attempts, error_count, last_error, step_success, cur_sub,
    error_recovery_on, verify_each_step, completion_reported,
    first_plan_failed, events_at_step_start, steps_begun, step_issues,
    agent_stopped, exc_raised>>
ctlVars ==
  <<reflection_on, max_retries, is_failed, c_sub, attempt, subtask_steps,
    max_subtask_steps, subtask_done, subtask_actions, actions_before,
    sub_success, worked_on, failed_at, passed, stop_requested,
    calls_after_stop, memory_on, _attempts, messages, sent>>
toolVars == <<som_map, stale, last_tool>>
detectVars == <<uia_elements, cdp_elements, merged>>
annVars == <<ann_elements, max_marks, mark_map>>
groundVars ==
  <<g_tree, g_screen, grounder, g_desc, g_scores, g_result, g_first, g_calls,
    g_other_called>>
strategyVars == <<ae_call, gs_call, gs_calls, returned>>
cacheVars == <<_cache, max_size, ttl_seconds, clock, stored, ec_call>>
pureVars == <<detectVars, annVars, groundVars, strategyVars, cacheVars>>
vars ==
  <<driver, planVars, recVars, loopVars, agentVars, ctlVars, toolVars,
    pureVars>>

NoCall == [op |-> "none"]

(* ------------------------- TaskPlan (models/task.py) ------------------- *)

\* TaskPlan.current_subtask: the 1-based position of the current subtask,
\* 0 for None.
current_subtask(sts, idx) ==
  IF 0 <= idx /\ idx < Len(sts) THEN idx + 1 ELSE 0

\* Subtask.start / complete / fail on the subtask at 1-based position p.
SubtaskStart(sts, p) == [sts EXCEPT ![p] = IN_PROGRESS]

SubtaskComplete(sts, p) == [sts EXCEPT ![p] = COMPLETED]

SubtaskFail(sts, p) == [sts EXCEPT ![p] = FAILED]

\* TaskPlan.start: starts the first subtask, if there is one.
PlanStart(sts) == IF Len(sts) > 0 THEN SubtaskStart(sts, 1) ELSE sts

\* advance without the completion of the current subtask
advance_keeps_current(sts, idx) ==
  IF idx + 1 < Len(sts)
    THEN [subtasks |-> SubtaskStart(sts, idx + 2), current_index |-> idx + 1,
          ret |-> TRUE]
    ELSE [subtasks |-> sts, current_index |-> idx + 1, ret |-> FALSE]

\* advance with the bound of its index test off by one
advance_stops_early(sts, idx) ==
  LET p == current_subtask(sts, idx)
      s1 == IF p # 0 /\ sts[p] = IN_PROGRESS THEN SubtaskComplete(sts, p) ELSE sts
  IN IF idx + 2 < Len(sts)
       THEN [subtasks |-> SubtaskStart(s1, idx + 2), current_index |-> idx + 1,
             ret |-> TRUE]
       ELSE [subtasks |-> s1, current_index |-> idx + 1, ret |-> FALSE]

\* TaskPlan.advance: completes the current subtask when it is in progress,
\* increments current_index, starts the subtask there when there is one;
\* returns whether there was one.
advance(sts, idx) ==
  LET p == current_subtask(sts, idx)
      s1 == IF p # 0 /\ sts[p] = IN_PROGRESS THEN SubtaskComplete(sts, p) ELSE sts
  IN IF idx + 1 < Len(sts)
       THEN [subtasks |-> SubtaskStart(s1, idx + 2), current_index |-> idx + 1,
             ret |-> TRUE]
       ELSE [subtasks |-> s1, current_index |-> idx + 1, ret |-> FALSE]

\* TaskPlan.is_complete
is_complete(sts) ==
  \A i \in 1..Len(sts) : sts[i] \in {COMPLETED, SKIPPED}

\* The plans TaskPlanner.decompose builds: every subtask Pending.
PendingPlans ==
  UNION {[1..n -> {PENDING}] : n \in 0..MaxSubtasks}

(* ------------- ErrorRecovery (brain/error_recovery.py) ------------------ *)

Strategy(n, pre, retry, maxr) ==
  [name |-> n, pre_actions |-> pre, retry_original |-> retry, max_retries |-> maxr]

\* ErrorRecovery.STRATEGIES; a kind without an entry has the empty list.
STRATEGIES ==
  [t \in ErrorType |->
    CASE t = "click_missed" ->
           <<Strategy("retry_click", <<"wait">>, TRUE, 2),
             Strategy("click_nearby", <<>>, TRUE, 1)>>
      [] t = "element_not_found" ->
           <<Strategy("wait_and_retry", <<"wait">>, TRUE, 3),
             Strategy("scroll_down", <<"scroll">>, TRUE, 2),
             Strategy("scroll_up", <<"scroll">>, TRUE, 2)>>
      [] t = "popup_blocked" ->
           <<Strategy("dismiss_with_escape", <<"hotkey">>, TRUE, 2),
             Strategy("click_outside", <<"click">>, TRUE, 1)>>
      [] t = "typing_failed" ->
           <<Strategy("click_and_retype", <<>>, TRUE, 2),
             Strategy("clear_and_retype", <<"hotkey">>, TRUE, 1)>>
      [] t = "timeout" ->
           <<Strategy("wait_longer", <<"wait">>, TRUE, 2)>>
      [] t = "element_moved" ->
           <<Strategy("refresh_and_retry", <<"wait">>, TRUE, 2)>>
      [] t = "unexpected_state" ->
           <<Strategy("escape_and_retry", <<"hotkey", "wait">>, TRUE, 1)>>
      [] OTHER -> <<>>]

\* The generic strategy get_recovery_strategy builds for a kind with no entry.
GenericStrategies == <<Strategy("wait_and_retry", <<"wait">>, TRUE, 2)>>

StrategiesFor(t) == IF STRATEGIES[t] = <<>> THEN GenericStrategies ELSE STRATEGIES[t]

StrategyKeys ==
  UNION {{<<t, StrategiesFor(t)[i].name>> : i \in 1..Len(StrategiesFor(t))} :
           t \in ErrorType}

NoStrategy == [name |-> "none"]

\* get_recovery_strategy with the attempt taken as a 1-based position
get_recovery_strategy_one_based(error_type, attempt_n, counts) ==
  LET strategies == StrategiesFor(error_type)
      n == Len(strategies)
      strategy_idx == (attempt_n + 1) % n
      strategy == strategies[strategy_idx + 1]
      key == <<error_type, strategy.name>>
  IN IF counts[key] >= strategy.max_retries
       THEN IF strategy_idx + 1 < n
              THEN [strategy |-> strategies[strategy_idx + 2], counts |-> counts]
              ELSE [strategy |-> NoStrategy, counts |-> counts]
       ELSE [strategy |-> strategy,
             counts |-> [counts EXCEPT ![key] = counts[key] + 1]]

\* ErrorRecovery.get_recovery_strategy with enabled_strategies = None:
\* the strategy returned (NoStrategy for None) and _attempt_counts afterwards.
get_recovery_strategy(error_type, attempt_n, counts) ==
  LET strategies == StrategiesFor(error_type)
      n == Len(strategies)
      strategy_idx == IF attempt_n >= n THEN attempt_n % n ELSE attempt_n
      strategy == strategies[strategy_idx + 1]
      key == <<error_type, strategy.name>>
  IN IF counts[key] >= strategy.max_retries
       THEN IF strategy_idx + 1 < n
              THEN [strategy |-> strategies[strategy_idx + 2], counts |-> counts]
              ELSE [strategy |-> NoStrategy, counts |-> counts]
       ELSE [strategy |-> strategy,
             counts |-> [counts EXCEPT ![key] = counts[key] + 1]]

non_recoverable == {"permission_denied"}

\* can_recover with a ceiling test that is off by one
can_recover_late(error_type, total_attempts, ceiling) ==
  IF total_attempts > ceiling THEN FALSE
  ELSE IF error_type \in non_recoverable THEN FALSE
  ELSE TRUE

\* ErrorRecovery.can_recover
can_recover(error_type, total_attempts, ceiling) ==
  IF total_attempts >= ceiling THEN FALSE
  ELSE IF error_type \in non_recoverable THEN FALSE
  ELSE TRUE

\* A verification text is modelled by the set of the words and phrases of
\* the keyword tables that occur in it (f"{issues} {observation}".lower()).
ERROR_KEYWORDS_ORDER ==
  <<"click_missed", "element_not_found", "popup_blocked", "typing_failed",
    "timeout", "element_moved">>

ERROR_KEYWORDS(t) ==
  CASE t = "click_missed" ->
         {"didn't click", "missed", "wrong position", "not clicked", "click failed"}
    [] t = "element_not_found" ->
         {"not found", "doesn't exist", "cannot find", "no element", "not visible"}
    [] t = "popup_blocked" -> {"popup", "dialog", "modal", "blocked", "overlay"}
    [] t = "typing_failed" -> {"typing failed", "text not entered", "input failed"}
    [] t = "timeout" -> {"timeout", "too slow", "not responding"}
    [] t = "element_moved" -> {"moved", "position changed", "relocated"}
    [] OTHER -> {}

ClickActions == {"click", "double_click", "right_click"}

\* ErrorRecovery.analyze_error: the first kind of the keyword table with a
\* keyword in the text, else the action-type heuristics, else unknown.
analyze_error(action, text) ==
  LET hits == {i \in 1..Len(ERROR_KEYWORDS_ORDER) :
                 ERROR_KEYWORDS(ERROR_KEYWORDS_ORDER[i]) \cap text # {}}
  IN IF hits # {}
       THEN ERROR_KEYWORDS_ORDER[CHOOSE i \in hits : \A j \in hits : i <= j]
     ELSE IF action \in ClickActions /\ "not" \in text
             /\ ("click" \in text \/ "open" \in text)
       THEN "click_missed"
     ELSE IF action = "type" /\ "not" \in text
             /\ ("type" \in text \/ "enter" \in text \/ "input" \in text)
       THEN "typing_failed"
     ELSE "unknown"

(* ------------------- initial values shared by the drivers --------------- *)

NoVerification == [none |-> TRUE]

NoError == [error_type |-> "none"]

InitPlanVars ==
  /\ subtasks = <<>>
  /\ current_index = 0
  /\ plan_call = NoCall

InitRecVars ==
  /\ max_recovery_attempts \in 0..MaxCeiling
  /\ cr_call = NoCall
  /\ attempt_counts = [k \in StrategyKeys |-> 0]

InitLoopVars ==
  /\ pc = "idle"
  /\ step_count = 0
  /\ max_steps = MaxSteps
  /\ is_completed = FALSE
  /\ run_result = "none"
  /\ saved = "none"

InitAgentVars ==
  /\ call_site = "first"
  /\ status = "idle"
  /\ planned = "none"
  /\ last_action = "none"
  /\ last_verification = NoVerification
  /\ recovery_attempts = 0
  /\ error_count = 0
  /\ last_error = NoError
  /\ step_success = TRUE
  /\ cur_sub = 0
  /\ error_recovery_on = FALSE
  /\ verify_each_step = TRUE
  /\ completion_reported = FALSE
  /\ first_plan_failed = FALSE
  /\ events_at_step_start = 0
  /\ steps_begun = 0
  /\ step_issues = FALSE
  /\ agent_stopped = FALSE
  /\ exc_raised = "none"

InitCtlVars ==
  /\ reflection_on = FALSE
  /\ max_retries = 0
  /\ is_failed = FALSE
  /\ c_sub = 0
  /\ attempt = 0
  /\ subtask_steps = 0
  /\ max_subtask_steps = 0
  /\ subtask_done = FALSE
  /\ subtask_actions = 0
  /\ actions_before = 0
  /\ sub_success = FALSE
  /\ worked_on = {}
  /\ failed_at = 0
  /\ passed = {}
  /\ stop_requested = FALSE
  /\ calls_after_stop = 0
  /\ memory_on = FALSE
  /\ _attempts = [i \in 1..MaxSubtasks |-> 0]
  /\ messages = <<>>
  /\ sent = <<>>

InitToolVars ==
  /\ som_map = {}
  /\ stale = FALSE
  /\ last_tool = NoCall

(* --------------- driver "plan": the TaskPlan API ------------------------ *)

NotCalled == [op |-> "not_called"]

InitDetectVars ==
  /\ uia_elements = <<>>
  /\ cdp_elements = <<>>
  /\ merged = NotCalled

InitAnnVars ==
  /\ ann_elements = <<>>
  /\ max_marks = 0
  /\ mark_map = NotCalled

InitGroundVars ==
  /\ g_tree = <<>>
  /\ g_screen = <<0, 0>>
  /\ grounder = [name_match_threshold |-> 50, spatial_weight |-> 30,
                 type_match_bonus |-> 15, min_confidence |-> 30]
  /\ g_desc = NotCalled
  /\ g_scores = <<>>
  /\ g_result = NotCalled
  /\ g_first = NotCalled
  /\ g_calls = 0
  /\ g_other_called = FALSE

InitStrategyVars ==
  /\ ae_call = NoCall
  /\ gs_call = NoCall
  /\ gs_calls = 0
  /\ returned = [k \in StrategyKeys |-> 0]

InitCacheVars ==
  /\ _cache = <<>>
  /\ max_size = 1
  /\ ttl_seconds = 0
  /\ clock = 0
  /\ stored = {}
  /\ ec_call = NoCall

InitPureVars ==
  /\ InitDetectVars
  /\ InitAnnVars
  /\ InitGroundVars
  /\ InitStrategyVars
  /\ InitCacheVars

InitApiPlan ==
  /\ driver = "plan"
  /\ subtasks \in PendingPlans
  /\ current_index = 0
  /\ plan_call = NoCall
  /\ InitRecVars
  /\ max_recovery_attempts = 0
  /\ InitLoopVars
  /\ InitAgentVars
  /\ InitCtlVars
  /\ InitToolVars
  /\ InitPureVars

\* plan.start(), once, on a fresh plan
ApiStart ==
  /\ driver = "plan"
  /\ plan_call.op = "none"
  /\ subtasks' = PlanStart(subtasks)
  /\ plan_call' = [op |-> "start", pre_index |-> current_index,
                   pre_len |-> Len(subtasks), ret |-> TRUE]
  /\ UNCHANGED <<driver, current_index, recVars, loopVars, agentVars,
                 ctlVars, toolVars, pureVars>>

\* plan.advance(), any number of times after start()
ApiAdvance ==
  /\ driver = "plan"
  /\ plan_call.op # "none"
  /\ current_index < Len(subtasks) + MaxOverrun
  /\ LET r == advance(subtasks, current_index) IN
       /\ subtasks' = r.subtasks
       /\ current_index' = r.current_index
       /\ plan_call' = [op |-> "advance", pre_index |-> current_index,
                        pre_len |-> Len(subtasks), ret |-> r.ret]
  /\ UNCHANGED <<driver, recVars, loopVars, agentVars, ctlVars, toolVars,
                 pureVars>>

(* --------------- driver "recovery": the ErrorRecovery API --------------- *)

InitApiRecovery ==
  /\ driver = "recovery"
  /\ InitPlanVars
  /\ InitRecVars
  /\ InitLoopVars
  /\ InitAgentVars
  /\ InitCtlVars
  /\ InitToolVars
  /\ InitPureVars

ApiCanRecover ==
  /\ driver = "recovery"
  /\ \E k \in ErrorType, n \in 0..MaxAttemptsArg :
       cr_call' = [op |-> "can_recover", kind |-> k, total |-> n,
                   ret |-> can_recover(k, n, max_recovery_attempts)]
  /\ UNCHANGED <<driver, planVars, max_recovery_attempts, attempt_counts,
                 loopVars, agentVars, ctlVars, toolVars, pureVars>>

(* --------------- driver "agent": ScreenControlAgent (agent.py) ---------- *)

\* The verification texts the model draws from, as the sets of table words
\* occurring in them: "popup blocking view" and "the click did not open it".
TextSamples == {{"popup"}, {"not", "click", "open"}}

\* What Verifier.verify_action can return, as far as the agent reads it.
Verifications ==
  [task_completed : BOOLEAN, issues : BOOLEAN, text : TextSamples]

\* The actions other than Done the planner is taken to return.
PlannedActions == {"click", "type"}

InitAgent ==
  /\ driver = "agent"
  /\ InitPlanVars
  /\ InitRecVars
  /\ InitLoopVars
  /\ call_site = "first"
  /\ status = "idle"
  /\ planned = "none"
  /\ last_action = "none"
  /\ last_verification = NoVerification
  /\ recovery_attempts = 0
  /\ error_count = 0
  /\ last_error = NoError
  /\ step_success = TRUE
  /\ cur_sub = 0
  /\ error_recovery_on \in BOOLEAN
  /\ verify_each_step \in BOOLEAN
  /\ completion_reported = FALSE
  /\ first_plan_failed = FALSE
  /\ events_at_step_start = 0
  /\ steps_begun = 0
  /\ step_issues = FALSE
  /\ agent_stopped = FALSE
  /\ exc_raised = "none"
  /\ InitCtlVars
  /\ InitToolVars
  /\ InitPureVars

\* What no action of the agent changes.
agentFixed ==
  <<driver, max_steps, max_recovery_attempts, error_recovery_on,
    verify_each_step, cr_call, ctlVars, toolVars, pureVars>>

\* run, up to the try block: the state is created and, when the task is
\* decomposed, the plan is started.
Run ==
  /\ driver = "agent"
  /\ pc = "idle"
  /\ \/ /\ pc' = "loop"
        /\ UNCHANGED <<subtasks, cur_sub, status, run_result, exc_raised,
                       plan_call>>
     \/ /\ pc' = "raised"
        /\ status' = "decomposing"
        /\ run_result' = "raised"
        /\ exc_raised' = "decompose_capture"
        /\ UNCHANGED <<subtasks, cur_sub, plan_call>>
     \/ /\ \E plan \in {q \in PendingPlans : Len(q) \in 1..MaxAgentSubtasks} :
             /\ subtasks' = PlanStart(plan)
             /\ cur_sub' = current_subtask(plan, current_index)
             /\ plan_call' = [op |-> "start", pre_index |-> current_index,
                              pre_len |-> Len(plan), ret |-> TRUE]
        /\ pc' = "loop"
        /\ status' = "decomposing"
        /\ UNCHANGED <<run_result, exc_raised>>
  /\ UNCHANGED <<agentFixed, current_index, attempt_counts, step_count,
                 is_completed, saved, call_site, planned, last_action,
                 last_verification, recovery_attempts, error_count, last_error,
                 step_success, completion_reported, first_plan_failed,
                 events_at_step_start, steps_begun, step_issues, agent_stopped>>

\* The handler `except Exception` of run: status Failed, the session saved
\* as failed, the exception raised again.
RunRaises(who) ==
  /\ pc' = "raised"
  /\ status' = "failed"
  /\ saved' = "false"
  /\ run_result' = "raised"
  /\ exc_raised' = who

\* The first _execute_step call of a loop iteration begins.
BeginStep ==
  /\ pc' = "capture"
  /\ call_site' = "first"
  /\ first_plan_failed' = FALSE
  /\ events_at_step_start' = error_count
  /\ steps_begun' = steps_begun + 1
  /\ step_issues' = FALSE
  /\ UNCHANGED agent_stopped

\* The top of the while loop of run: "false" when the budget is used up,
\* "true" when the completion flag is set, "go" to run an iteration.
LoopExit(sc, ms, done) ==
  IF sc >= ms THEN "false" ELSE IF done THEN "true" ELSE "go"

LoopTop ==
  /\ driver = "agent"
  /\ pc = "loop"
  /\ LET x == LoopExit(step_count, max_steps, is_completed) IN
     IF x = "false"
       THEN /\ pc' = "returned"
            /\ status' = "failed"
            /\ saved' = "false"
            /\ run_result' = "false"
            /\ UNCHANGED <<call_site, first_plan_failed, events_at_step_start,
                           steps_begun, step_issues, agent_stopped>>
     ELSE IF x = "true"
       THEN /\ pc' = "returned"
            /\ status' = "completed"
            /\ saved' = "true"
            /\ run_result' = "true"
            /\ UNCHANGED <<call_site, first_plan_failed, events_at_step_start,
                           steps_begun, step_issues, agent_stopped>>
     ELSE IF cur_sub # 0
       THEN /\ pc' = "check_subtask"
            /\ UNCHANGED <<status, saved, run_result, call_site,
                           first_plan_failed, events_at_step_start,
                           steps_begun, step_issues, agent_stopped>>
     ELSE /\ BeginStep
          /\ UNCHANGED <<status, saved, run_result>>
  /\ UNCHANGED <<agentFixed, plan_call, subtasks, current_index,
                 attempt_counts, step_count, is_completed, planned,
                 last_action, last_verification, recovery_attempts,
                 error_count, last_error, step_success, cur_sub,
                 completion_reported, exc_raised>>

\* _check_subtask_completion and, when the subtask is complete,
\* AgentState.advance_subtask.
CheckSubtask ==
  /\ driver = "agent"
  /\ pc = "check_subtask"
  /\ \/ /\ RunRaises("capture")
        /\ UNCHANGED <<subtasks, current_index, cur_sub, is_completed,
                       call_site, first_plan_failed, events_at_step_start,
                       steps_begun, step_issues, agent_stopped,
                       plan_call>>
     \/ /\ BeginStep
        /\ UNCHANGED <<subtasks, current_index, cur_sub, is_completed, status,
                       saved, run_result, exc_raised, plan_call>>
     \/ /\ LET r == advance(SubtaskComplete(subtasks, cur_sub), current_index) IN
             /\ subtasks' = r.subtasks
             /\ current_index' = r.current_index
             /\ plan_call' = [op |-> "advance", pre_index |-> current_index,
                              pre_len |-> Len(subtasks), ret |-> r.ret]
             /\ IF r.ret
                  THEN /\ cur_sub' = current_subtask(r.subtasks, r.current_index)
                       /\ BeginStep
                       /\ UNCHANGED is_completed
                  ELSE /\ is_completed' = TRUE
                       /\ pc' = "loop"
                       /\ UNCHANGED <<cur_sub, call_site, first_plan_failed,
                                      events_at_step_start,
                                      steps_begun, step_issues, agent_stopped>>
        /\ UNCHANGED <<status, saved, run_result, exc_raised>>
  /\ UNCHANGED <<agentFixed, attempt_counts, step_count, planned, last_action,
                 last_verification, recovery_attempts, error_count, last_error,
                 step_success, completion_reported>>

\* _execute_step, 1: the screenshot.
Capture ==
  /\ driver = "agent"
  /\ pc = "capture"
  /\ \/ /\ pc' = "plan"
        /\ UNCHANGED <<status, saved, run_result, exc_raised>>
     \/ RunRaises("capture")
  /\ UNCHANGED <<agentFixed, plan_call, subtasks, current_index, attempt_counts,
                 step_count, is_completed, call_site, planned, last_action,
                 last_verification, recovery_attempts, error_count, last_error,
                 step_success, cur_sub, completion_reported, first_plan_failed,
                 events_at_step_start, steps_begun, step_issues, agent_stopped>>

\* _execute_step, 2: the planner raises (the step returns False), returns
\* Done (the completion flag is set, the step returns True) or an action.
Plan ==
  /\ driver = "agent"
  /\ pc = "plan"
  /\ status' = "planning"
  /\ \/ /\ pc' = "step_ret"
        /\ step_success' = FALSE
        /\ first_plan_failed' = (first_plan_failed \/ call_site = "first")
        /\ UNCHANGED <<planned, is_completed, completion_reported>>
     \/ /\ pc' = "step_ret"
        /\ step_success' = TRUE
        /\ is_completed' = TRUE
        /\ completion_reported' = TRUE
        /\ UNCHANGED <<planned, first_plan_failed>>
     \/ /\ \E a \in PlannedActions : planned' = a
        /\ pc' = "exec"
        /\ UNCHANGED <<step_success, is_completed, completion_reported,
                       first_plan_failed>>
  /\ UNCHANGED <<agentFixed, plan_call, subtasks, current_index, attempt_counts,
                 step_count, run_result, saved, call_site, last_action,
                 last_verification, recovery_attempts, error_count, last_error,
                 cur_sub, events_at_step_start,
                 steps_begun, step_issues, agent_stopped, exc_raised>>

\* _execute_step after executor.execute, with the verification run
\* whatever the executor returned
AfterExecute_always_verifies(exec_success, verify) ==
  IF verify THEN "verify" ELSE "step_ret"

\* _execute_step after executor.execute: `if not exec_success: return
\* False`, then `if self.verify_each_step` goes on to the verification.
AfterExecute(exec_success, verify) ==
  IF ~exec_success THEN "step_ret"
  ELSE IF verify THEN "verify" ELSE "step_ret"

\* _execute_step, 3: the executor fails (the step returns False) or the
\* action is dispatched and recorded (add_action).
Execute ==
  /\ driver = "agent"
  /\ pc = "exec"
  /\ status' = "executing"
  /\ \E exec_success \in BOOLEAN :
       /\ last_action' = IF exec_success THEN planned ELSE last_action
       /\ pc' = AfterExecute(exec_success, verify_each_step)
       /\ IF pc' = "verify"
            THEN UNCHANGED <<step_success, planned>>
            ELSE step_success' = exec_success /\ planned' = "none"
  /\ UNCHANGED <<agentFixed, plan_call, subtasks, current_index, attempt_counts,
                 step_count, is_completed, run_result, saved, call_site,
                 last_verification, recovery_attempts, error_count,
                 last_error, cur_sub, completion_reported, first_plan_failed,
                 events_at_step_start,
                 steps_begun, step_issues, agent_stopped, exc_raised>>

\* _execute_step, 4: the second screenshot or the verifier raises, or the
\* verification is stored; task_completed sets the completion flag and the
\* step returns False exactly when issues are reported.
Verify ==
  /\ driver = "agent"
  /\ pc = "verify"
  /\ \/ /\ \E who \in {"capture", "verifier"} : RunRaises(who)
        /\ UNCHANGED <<last_verification, is_completed, completion_reported,
                       step_success, planned, step_issues>>
     \/ /\ \E v \in Verifications :
             /\ last_verification' = v
             /\ is_completed' = (is_completed \/ v.task_completed)
             /\ completion_reported' = (completion_reported \/ v.task_completed)
             /\ step_success' = ~v.issues
             /\ step_issues' = (step_issues \/ (call_site = "first" /\ v.issues))
        /\ pc' = "step_ret"
        /\ status' = "verifying"
        /\ planned' = "none"
        /\ UNCHANGED <<saved, run_result, exc_raised>>
  /\ UNCHANGED <<agentFixed, plan_call, subtasks, current_index, attempt_counts,
                 step_count, call_site, last_action,
                 recovery_attempts, error_count, last_error, cur_sub,
                 first_plan_failed, events_at_step_start, steps_begun,
                 agent_stopped>>

\* The while test of _execute_step_with_recovery.
RecoveryLoopGuard(attempts, ceiling) == attempts < ceiling

\* The recovery loop admitting an attempt for every recoverable kind,
\* whatever the count
RecoveryAdmitted_no_ceiling(error_type, attempts, ceiling) ==
  error_type \notin non_recoverable

\* An iteration of the recovery loop goes on to a strategy when the while
\* test holds and can_recover says yes.
RecoveryAdmitted(error_type, attempts, ceiling) ==
  /\ RecoveryLoopGuard(attempts, ceiling)
  /\ can_recover(error_type, attempts, ceiling)

\* Whether _execute_step_with_recovery enters the recovery loop after the
\* first _execute_step call.
EntersRecovery(success, recovery_on, verification) ==
  ~success /\ recovery_on /\ verification # NoVerification

\* _execute_step has returned: after the first call the recovery loop is
\* entered or not; after a retry, success marks the error event and leaves
\* the loop, failure goes round it.
StepReturned ==
  /\ driver = "agent"
  /\ pc = "step_ret"
  /\ IF call_site = "first"
       THEN /\ pc' = IF EntersRecovery(step_success, error_recovery_on,
                                       last_verification)
                       THEN "recover" ELSE "step_end"
            /\ UNCHANGED last_error
       ELSE IF step_success
         THEN /\ pc' = "step_end"
              /\ last_error' = [last_error EXCEPT !.recovery_successful = TRUE]
         ELSE /\ pc' = "recover"
              /\ UNCHANGED last_error
  /\ UNCHANGED <<agentFixed, plan_call, subtasks, current_index, attempt_counts,
                 step_count, is_completed, run_result, saved, call_site,
                 status, planned, last_action, last_verification,
                 recovery_attempts, error_count, step_success, cur_sub,
                 completion_reported, first_plan_failed, events_at_step_start,
                 steps_begun, step_issues, agent_stopped,
                 exc_raised>>

\* One iteration of the recovery loop, up to the retry: the error is
\* classified from last_action and last_verification, can_recover and
\* get_recovery_strategy are asked, the pre-actions are executed, the
\* counter is incremented and the error event recorded.
Recover ==
  /\ driver = "agent"
  /\ pc = "recover"
  /\ LET et == analyze_error(last_action, last_verification.text)
         g == get_recovery_strategy(et, recovery_attempts, attempt_counts)
     IN /\ status' = IF RecoveryLoopGuard(recovery_attempts,
                                          max_recovery_attempts)
                       THEN "recovering" ELSE status
        /\ IF ~RecoveryAdmitted(et, recovery_attempts, max_recovery_attempts)
             THEN /\ pc' = "step_end"
                  /\ UNCHANGED <<attempt_counts, recovery_attempts,
                                 error_count, last_error, call_site>>
           ELSE IF g.strategy = NoStrategy
             THEN /\ pc' = "step_end"
                  /\ attempt_counts' = g.counts
                  /\ UNCHANGED <<recovery_attempts, error_count,
                                 last_error, call_site>>
           ELSE /\ attempt_counts' = g.counts
                /\ recovery_attempts' = recovery_attempts + 1
                /\ error_count' = error_count + 1
                /\ last_error' = [error_type |-> et,
                                  recovery_strategy |-> g.strategy.name,
                                  recovery_attempted |-> TRUE,
                                  recovery_successful |-> FALSE]
                /\ IF g.strategy.retry_original
                     THEN pc' = "capture" /\ call_site' = "retry"
                     ELSE pc' = "recover" /\ UNCHANGED call_site
  /\ UNCHANGED <<agentFixed, plan_call, subtasks, current_index, step_count,
                 is_completed, run_result, saved, planned, last_action,
                 last_verification, step_success, cur_sub,
                 completion_reported, first_plan_failed, events_at_step_start,
                 steps_begun, step_issues, agent_stopped,
                 exc_raised>>

\* step_count with every _execute_step call of the iteration counted
CountStep_per_call(count, attempts) == count + 1 + attempts

\* `self.state.step_count += 1` of run
CountStep(count, attempts) == count + 1

\* The end of a loop iteration of run: the step is counted and
\* reset_recovery_state is called.
StepEnd ==
  /\ driver = "agent"
  /\ pc = "step_end"
  /\ step_count' = CountStep(step_count, recovery_attempts)
  /\ recovery_attempts' = 0
  /\ pc' = "loop"
  /\ call_site' = "first"
  /\ step_success' = TRUE
  /\ first_plan_failed' = FALSE
  /\ events_at_step_start' = error_count
  /\ step_issues' = FALSE
  /\ UNCHANGED <<steps_begun, agent_stopped>>
  /\ UNCHANGED <<agentFixed, plan_call, subtasks, current_index, attempt_counts,
                 is_completed, run_result, saved, status, planned,
                 last_action, last_verification, error_count, last_error,
                 cur_sub, completion_reported, exc_raised>>

\* AgentThread.stop, called from the GUI thread while run is in its loop:
\* `self.agent.state.is_completed = True`.
AgentStop ==
  /\ driver = "agent"
  /\ pc \notin {"idle", "returned", "raised"}
  /\ ~agent_stopped
  /\ agent_stopped' = TRUE
  /\ is_completed' = TRUE
  /\ UNCHANGED <<agentFixed, plan_call, subtasks, current_index, attempt_counts,
                 pc, step_count, run_result, saved, call_site, status, planned,
                 last_action, last_verification, recovery_attempts,
                 error_count, last_error, step_success, cur_sub,
                 completion_reported, first_plan_failed, events_at_step_start,
                 steps_begun, step_issues, exc_raised>>

NextAgent ==
  \/ Run
  \/ AgentStop
  \/ LoopTop
  \/ CheckSubtask
  \/ Capture
  \/ Plan
  \/ Execute
  \/ Verify
  \/ StepReturned
  \/ Recover
  \/ StepEnd

(* ---- driver "ctl": LLMController / OpenAILLMController, subtask mode ---- *)
(* brain/llm_controller.py; brain/openai_controller.py has the same code   *)

\* The cap of _execute_subtask_actions on the steps of one attempt.
SubtaskStepCap == 20

Min(a, b) == IF a < b THEN a ELSE b

\* What ReflectionWorkflow.verify_subtask can return, as far as the
\* controller reads it: _parse_verify_response never sets both flags.
ReflectionResults ==
  {r \in [subtask_completed : BOOLEAN, should_retry : BOOLEAN] :
     ~(r.subtask_completed /\ r.should_retry)}

\* What one model response does in _process_response: it ends the turn,
\* only looks at the screen, executes an action tool, or calls task_complete.
Responses == {"end_turn", "look", "action", "complete"}

InitCtl ==
  /\ driver = "ctl"
  /\ InitPlanVars
  /\ InitRecVars
  /\ max_recovery_attempts = 0
  /\ InitLoopVars
  /\ InitAgentVars
  /\ InitToolVars
  /\ InitPureVars
  /\ reflection_on \in BOOLEAN
  /\ max_retries \in 0..MaxRetries
  /\ (~reflection_on => max_retries = 0)
  /\ is_failed = FALSE
  /\ c_sub = 0
  /\ attempt = 0
  /\ subtask_steps = 0
  /\ max_subtask_steps = 0
  /\ subtask_done = FALSE
  /\ subtask_actions = 0
  /\ actions_before = 0
  /\ sub_success = FALSE
  /\ worked_on = {}
  /\ failed_at = 0
  /\ passed = {}
  /\ stop_requested = FALSE
  /\ calls_after_stop = 0
  /\ memory_on \in BOOLEAN
  /\ (~reflection_on => ~memory_on)
  /\ _attempts = [i \in 1..MaxSubtasks |-> 0]
  /\ messages = <<>>
  /\ sent = <<>>

\* What no action of the controller changes.
ctlFixed ==
  <<driver, max_steps, reflection_on, max_retries, memory_on, current_index,
    plan_call, recVars, agentVars, toolVars, pureVars>>

stopVars == <<stop_requested, calls_after_stop>>

\* _call_llm is entered: a model call begun after a stop request is counted.
CountCall(stopped, n) == IF stopped /\ n < 2 THEN n + 1 ELSE n

\* What verify_subtask returns from its except branch, without recording
\* an attempt.
VerificationError == [subtask_completed |-> FALSE, should_retry |-> TRUE]

\* ReflectionWorkflow._record_attempt, called by verify_subtask when the
\* model answered.
_record_attempt(recorded, subtask_id, attempts) ==
  IF recorded THEN [attempts EXCEPT ![subtask_id] = @ + 1] ELSE attempts

\* ReflectionWorkflow.record_outcome, as far as _attempts goes: it returns
\* at once without a memory manager, else deletes the subtask's records.
record_outcome(memory, subtask_id, attempts) ==
  IF ~memory THEN attempts ELSE [attempts EXCEPT ![subtask_id] = 0]

\* The kinds of message of the conversation: a text of the controller
\* (role user), an assistant message with tool calls, the user message
\* with the results of those calls, a reflection hint (role user).
UserKinds == {"prompt", "tool_result", "hint"}

\* _process_response, the end: a response with tool calls that is not
\* task_complete appends the assistant message and its tool results.
AfterResponse(msgs, resp) ==
  IF resp \in {"look", "action"}
    THEN msgs \o <<"assistant_tool", "tool_result">>
    ELSE msgs

\* _reset_subtask_context: messages[-2:] when there are more than four,
\* then the retry prompt.
_reset_subtask_context(msgs) ==
  Append(IF Len(msgs) > 4 THEN SubSeq(msgs, Len(msgs) - 1, Len(msgs)) ELSE msgs,
         "prompt")

\* _inject_reflection_hint, called when the reflection suggests an approach.
_inject_reflection_hint(msgs, suggested) ==
  IF suggested THEN Append(msgs, "hint") ELSE msgs

\* The handler `except Exception` of run and its finally block.
CtlRaises(who) ==
  /\ pc' = "raised"
  /\ is_failed' = TRUE
  /\ run_result' = "raised"
  /\ saved' = IF is_completed THEN "true" ELSE "false"

\* run, up to _run_with_subtasks: the task is decomposed into more than
\* one subtask and plan.start() is called.
CtlRun ==
  /\ driver = "ctl"
  /\ pc = "idle"
  /\ \/ /\ CtlRaises("capture")
        /\ UNCHANGED <<subtasks, c_sub>>
     \/ /\ \E plan \in {q \in PendingPlans : Len(q) > 1} :
             subtasks' = PlanStart(plan)
        /\ c_sub' = 1
        /\ pc' = "for_subtask"
        /\ UNCHANGED <<is_failed, run_result, saved>>
  /\ UNCHANGED <<ctlFixed, _attempts, messages, sent, stopVars, step_count,
                 is_completed, attempt, subtask_steps,
                 max_subtask_steps, subtask_done, subtask_actions,
                 actions_before, sub_success, worked_on, failed_at, passed>>

\* The head of the for loop of _run_with_subtasks: after the last subtask
\* the completion flag is set and True returned; else the subtask is started.
ForSubtask ==
  /\ driver = "ctl"
  /\ pc = "for_subtask"
  /\ IF c_sub > Len(subtasks)
       THEN /\ is_completed' = TRUE
            /\ pc' = "returned"
            /\ run_result' = "true"
            /\ saved' = "true"
            /\ UNCHANGED <<subtasks, subtask_actions, attempt, worked_on>>
       ELSE /\ subtasks' = SubtaskStart(subtasks, c_sub)
            /\ subtask_actions' = 0
            /\ attempt' = 0
            /\ worked_on' = worked_on \cup {c_sub}
            /\ pc' = "for_attempt"
            /\ UNCHANGED <<is_completed, run_result, saved>>
  /\ UNCHANGED <<ctlFixed, _attempts, messages, sent, stopVars, step_count,
                 is_failed, c_sub, subtask_steps,
                 max_subtask_steps, subtask_done, actions_before, sub_success,
                 failed_at, passed>>

\* The head of the for loop of _execute_subtask_with_reflection: after
\* max_retries + 1 attempts it returns False; else _execute_subtask_actions
\* is entered.
ForAttempt ==
  /\ driver = "ctl"
  /\ pc = "for_attempt"
  /\ IF attempt > max_retries
       THEN /\ sub_success' = FALSE
            /\ pc' = "sub_result"
            /\ UNCHANGED <<actions_before, subtask_done, subtask_steps,
                           max_subtask_steps, messages>>
       ELSE /\ actions_before' = subtask_actions
            /\ messages' = Append(messages, "prompt")
            /\ subtask_done' = FALSE
            /\ subtask_steps' = 0
            /\ max_subtask_steps' = Min(SubtaskStepCap, max_steps - step_count)
            /\ pc' = "act_loop"
            /\ UNCHANGED sub_success
  /\ UNCHANGED <<ctlFixed, _attempts, sent, stopVars, subtasks, step_count,
                 is_completed, run_result,
                 saved, is_failed, c_sub, attempt, subtask_actions, worked_on,
                 failed_at, passed>>

\* One test or iteration of the while loop of _execute_subtask_actions.
ActLoop ==
  /\ driver = "ctl"
  /\ pc = "act_loop"
  /\ IF ~(subtask_steps < max_subtask_steps)
       THEN /\ pc' = "after_actions"
            /\ UNCHANGED <<is_completed, subtask_steps, step_count,
                           subtask_done, subtask_actions, worked_on,
                           calls_after_stop, messages, sent>>
     ELSE IF subtask_done
       THEN /\ is_completed' = FALSE
            /\ pc' = "after_actions"
            /\ UNCHANGED <<subtask_steps, step_count, subtask_done,
                           subtask_actions, worked_on, calls_after_stop,
                           messages, sent>>
     ELSE /\ worked_on' = worked_on \cup {c_sub}
          /\ calls_after_stop' = CountCall(stop_requested, calls_after_stop)
          /\ sent' = messages
          /\ \/ /\ pc' = "after_actions"
                /\ UNCHANGED <<is_completed, subtask_steps, step_count,
                               subtask_done, subtask_actions, messages>>
             \/ \E resp \in Responses :
                  LET done == is_completed \/ resp = "complete"
                      should_continue == resp \in {"look", "action"}
                  IN /\ is_completed' = done
                     /\ messages' = AfterResponse(messages, resp)
                     /\ subtask_actions' =
                          IF resp \in {"action", "complete"}
                            THEN subtask_actions + 1 ELSE subtask_actions
                     /\ subtask_steps' = subtask_steps + 1
                     /\ step_count' = step_count + 1
                     /\ subtask_done' = done
                     /\ pc' = IF done \/ should_continue
                                THEN "act_loop" ELSE "after_actions"
  /\ UNCHANGED <<ctlFixed, _attempts, subtasks, run_result, saved, is_failed, c_sub,
                 attempt, max_subtask_steps, actions_before, sub_success,
                 failed_at, passed, stop_requested>>

\* LLMControllerThread.stop, called from the GUI thread while run is
\* under way: the completion flag of the controller's state is set.
CtlStop ==
  /\ driver = "ctl"
  /\ pc \notin {"idle", "returned", "raised"}
  /\ ~stop_requested
  /\ stop_requested' = TRUE
  /\ is_completed' = TRUE
  /\ UNCHANGED <<ctlFixed, _attempts, messages, sent, pc, subtasks, step_count, run_result, saved,
                 is_failed, c_sub, attempt, subtask_steps, max_subtask_steps,
                 subtask_done, subtask_actions, actions_before, sub_success,
                 worked_on, failed_at, passed, calls_after_stop>>

\* _execute_subtask_with_reflection after _execute_subtask_actions: a retry
\* that took no new action resets the context; else the subtask is verified
\* and True returned, another attempt made, or False returned.
AfterActions ==
  /\ driver = "ctl"
  /\ pc = "after_actions"
  /\ IF subtask_actions = actions_before /\ attempt > 0
       THEN /\ attempt' = attempt + 1
            /\ pc' = "for_attempt"
            /\ messages' = _reset_subtask_context(messages)
            /\ UNCHANGED <<sub_success, subtask_actions, passed, is_failed,
                           run_result, saved, _attempts>>
     ELSE IF reflection_on
       THEN \/ /\ CtlRaises("capture")
               /\ UNCHANGED <<attempt, sub_success, subtask_actions, passed,
                              _attempts, messages>>
            \/ /\ \E r \in ReflectionResults, recorded \in BOOLEAN :
                    /\ ~recorded => r = VerificationError
                    /\ IF r.subtask_completed
                         THEN /\ sub_success' = TRUE
                              /\ passed' = passed \cup {c_sub}
                              /\ pc' = "sub_result"
                              /\ _attempts' =
                                   record_outcome(memory_on, c_sub,
                                                  _record_attempt(recorded, c_sub, _attempts))
                              /\ UNCHANGED <<attempt, subtask_actions, messages>>
                       ELSE IF r.should_retry /\ attempt < max_retries
                         THEN /\ subtask_actions' = 0
                              /\ attempt' = attempt + 1
                              /\ pc' = "for_attempt"
                              /\ _attempts' = _record_attempt(recorded, c_sub, _attempts)
                              /\ \E suggested \in BOOLEAN :
                                   messages' = _inject_reflection_hint(messages, suggested)
                              /\ UNCHANGED <<sub_success, passed>>
                       ELSE /\ sub_success' = FALSE
                            /\ pc' = "sub_result"
                            /\ _attempts' =
                                 record_outcome(memory_on, c_sub,
                                                _record_attempt(recorded, c_sub, _attempts))
                            /\ UNCHANGED <<attempt, subtask_actions, passed, messages>>
               /\ UNCHANGED <<is_failed, run_result, saved>>
     ELSE /\ sub_success' = is_completed
          /\ pc' = "sub_result"
          /\ UNCHANGED <<attempt, subtask_actions, passed, is_failed,
                         run_result, saved, _attempts, messages>>
  /\ UNCHANGED <<ctlFixed, sent, stopVars, subtasks, step_count, is_completed, c_sub,
                 subtask_steps, max_subtask_steps, subtask_done,
                 actions_before, worked_on, failed_at>>

\* _run_with_subtasks going on after a failed subtask
StopOnFailure_never(success, st) == FALSE

\* _run_with_subtasks stops at a subtask that did not succeed and is Failed.
StopOnFailure(success, st) == ~success /\ st = FAILED

\* _run_with_subtasks after _execute_subtask_with_reflection: the subtask
\* is completed or failed; a failure or a used-up budget returns False.
SubResult ==
  /\ driver = "ctl"
  /\ pc = "sub_result"
  /\ LET sts == IF sub_success THEN SubtaskComplete(subtasks, c_sub)
                ELSE SubtaskFail(subtasks, c_sub)
     IN /\ subtasks' = sts
        /\ failed_at' = IF sub_success THEN failed_at ELSE c_sub
        /\ IF StopOnFailure(sub_success, sts[c_sub])
             THEN /\ is_failed' = TRUE
                  /\ pc' = "returned"
                  /\ run_result' = "false"
                  /\ saved' = IF is_completed THEN "true" ELSE "false"
                  /\ UNCHANGED c_sub
           ELSE IF step_count >= max_steps
             THEN /\ pc' = "returned"
                  /\ run_result' = "false"
                  /\ saved' = IF is_completed THEN "true" ELSE "false"
                  /\ UNCHANGED <<c_sub, is_failed>>
           ELSE /\ c_sub' = c_sub + 1
                /\ pc' = "for_subtask"
                /\ UNCHANGED <<is_failed, run_result, saved>>
  /\ UNCHANGED <<ctlFixed, _attempts, messages, sent, stopVars, step_count,
                 is_completed, attempt, subtask_steps,
                 max_subtask_steps, subtask_done, subtask_actions,
                 actions_before, sub_success, worked_on, passed>>

NextCtl ==
  \/ CtlRun
  \/ ForSubtask
  \/ ForAttempt
  \/ ActLoop
  \/ AfterActions
  \/ SubResult
  \/ CtlStop

(* ---- driver "direct": LLMController.run, direct mode ---- *)
(* brain/llm_controller.py                                   *)

InitDirect ==
  /\ driver = "direct"
  /\ InitPlanVars
  /\ InitRecVars
  /\ max_recovery_attempts = 0
  /\ InitLoopVars
  /\ InitAgentVars
  /\ InitCtlVars
  /\ InitToolVars
  /\ InitPureVars

\* What no action of the direct mode changes.
directFixed ==
  <<driver, max_steps, planVars, recVars, agentVars, toolVars, pureVars,
    reflection_on, max_retries, c_sub, attempt, subtask_steps,
    max_subtask_steps, subtask_done, subtask_actions, actions_before,
    sub_success, worked_on, failed_at, passed, stopVars, memory_on, _attempts,
    messages, sent>>

\* run, up to _run_direct: there is no planner, or the task is not to be
\* decomposed, or the plan has at most one subtask; the capture or the
\* planner can raise.
DirectRun ==
  /\ driver = "direct"
  /\ pc = "idle"
  /\ \/ CtlRaises("capture")
     \/ /\ pc' = "direct_loop"
        /\ UNCHANGED <<is_failed, run_result, saved>>
  /\ UNCHANGED <<directFixed, step_count, is_completed>>

\* _run_direct returns: the finally block of run saves the completion flag.
DirectReturns(value) ==
  /\ pc' = "returned"
  /\ run_result' = value
  /\ UNCHANGED <<step_count, is_failed>>

\* One test or iteration of the while loop of _run_direct, and the code
\* after the loop.
DirectLoop ==
  /\ driver = "direct"
  /\ pc = "direct_loop"
  /\ IF ~(step_count < max_steps)
       THEN /\ DirectReturns(IF is_completed THEN "true" ELSE "false")
            /\ saved' = IF is_completed THEN "true" ELSE "false"
            /\ UNCHANGED is_completed
     ELSE IF is_completed
       THEN /\ DirectReturns("true")
            /\ saved' = "true"
            /\ UNCHANGED is_completed
     ELSE IF is_failed
       THEN /\ DirectReturns("false")
            /\ saved' = "false"
            /\ UNCHANGED is_completed
     ELSE \/ /\ DirectReturns("false")
             /\ saved' = "false"
             /\ UNCHANGED is_completed
          \/ /\ CtlRaises("model")
             /\ UNCHANGED <<step_count, is_completed>>
          \/ \E resp \in Responses :
               LET should_continue == resp \in {"look", "action"} IN
               /\ is_completed' = (resp = "complete")
               /\ IF should_continue
                    THEN /\ step_count' = step_count + 1
                         /\ pc' = "direct_loop"
                         /\ UNCHANGED <<run_result, saved, is_failed>>
                    ELSE /\ DirectReturns(IF resp = "complete" THEN "true" ELSE "false")
                         /\ saved' = IF resp = "complete" THEN "true" ELSE "false"
  /\ UNCHANGED directFixed

NextDirect == DirectRun \/ DirectLoop

(* ---- driver "tools": OpenAILLMController._execute_tool and the marks ---- *)
(* brain/openai_controller.py                                              *)

\* The tools after which _execute_tool invalidates the mark table.
_ACTION_TOOLS ==
  {"click", "double_click", "right_click", "type_text", "hotkey", "scroll",
   "click_element", "click_mark", "use_skill"}

\* The tools that _execute_tool answers without touching the mark table.
PassiveTools == {"look_at_screen", "find_element", "task_complete", "unknown"}

\* The mark ids a model can name: those of a table and one beyond.
MarkIds == 1..(MaxMarks + 1)

\* The mark tables SoMAnnotator.annotate can issue: at least one mark.
MarkTables == (SUBSET (1..MaxMarks)) \ {{}}

\* How a _tool_* function of an action tool can end:
\*   raised_before   an exception before any input is dispatched (an
\*                   argument is missing: input["x"], input["amount"], ...);
\*   dispatched      the executor dispatched the input and returned True;
\*   not_dispatched  a message is returned and nothing was dispatched (the
\*                   executor returned False, no element, no skill executor);
\*   raised_after    _tool_scroll with amount null: the executor scrolls by
\*                   its default, then `amount > 0` raises TypeError.
\* _tool_use_skill reads its arguments with get and catches what the skill
\* raises, so it never raises.
ToolOutcomes(tool) ==
  CASE tool = "use_skill" -> {"dispatched", "not_dispatched"}
    [] tool = "scroll" ->
         {"raised_before", "dispatched", "not_dispatched", "raised_after"}
    [] OTHER -> {"raised_before", "dispatched", "not_dispatched"}

Raised(outcome) == outcome \in {"raised_before", "raised_after"}

Dispatched(outcome) == outcome \in {"dispatched", "raised_after"}

\* The end of _execute_tool: the table is cleared when the tool function
\* returned (the except branch returns without clearing).
Invalidate(tool, outcome, map) ==
  IF ~Raised(outcome) /\ tool \in _ACTION_TOOLS /\ map # {} THEN {} ELSE map

\* The table is stale when an input was dispatched after it was issued.
StaleAfter(was_stale, outcome, map) ==
  map # {} /\ (was_stale \/ Dispatched(outcome))

InitTools ==
  /\ driver = "tools"
  /\ InitPlanVars
  /\ InitRecVars
  /\ max_recovery_attempts = 0
  /\ InitLoopVars
  /\ InitAgentVars
  /\ InitCtlVars
  /\ InitToolVars
  /\ InitPureVars

toolsFixed ==
  <<driver, planVars, recVars, loopVars, agentVars, ctlVars, pureVars>>

\* _execute_tool("look_at_screen_som"): the capture raises, or no element
\* is detected, or a new table replaces the current one.
ToolLookAtScreenSom ==
  /\ driver = "tools"
  /\ \/ /\ \E out \in {"raised", "no_elements"} :
             last_tool' = [op |-> "look_at_screen_som", outcome |-> out,
                           dispatched |-> FALSE, on_stale |-> stale,
                           mark_id |-> 0]
        /\ UNCHANGED <<som_map, stale>>
     \/ /\ \E table \in MarkTables : som_map' = table
        /\ stale' = FALSE
        /\ last_tool' = [op |-> "look_at_screen_som", outcome |-> "annotated",
                         dispatched |-> FALSE, on_stale |-> stale,
                         mark_id |-> 0]
  /\ UNCHANGED toolsFixed

\* _tool_click_mark as an outcome of the tool function: the argument is
\* missing, there is no table, the id is not in the table, or the executor
\* is given the coordinates of the mark.
click_mark_outcome(mark_id, map, exec_ok) ==
  IF mark_id = 0 THEN "raised_before"
  ELSE IF map = {} THEN "no_marks"
  ELSE IF mark_id \notin map THEN "no_such_mark"
  ELSE IF exec_ok THEN "dispatched" ELSE "not_dispatched"

\* _execute_tool("click_mark"); mark_id 0 stands for a missing argument.
ToolClickMark ==
  /\ driver = "tools"
  /\ \E mark_id \in {0} \cup MarkIds, exec_ok \in BOOLEAN :
       LET out == click_mark_outcome(mark_id, som_map, exec_ok)
       IN /\ som_map' = Invalidate("click_mark", out, som_map)
          /\ stale' = StaleAfter(stale, out, som_map')
          /\ last_tool' = [op |-> "click_mark", outcome |-> out,
                           dispatched |-> Dispatched(out), on_stale |-> stale,
                           mark_id |-> mark_id]
  /\ UNCHANGED toolsFixed

\* _execute_tool for the other action tools.
ToolAction ==
  /\ driver = "tools"
  /\ \E tool \in _ACTION_TOOLS \ {"click_mark"} :
       \E out \in ToolOutcomes(tool) :
         /\ som_map' = Invalidate(tool, out, som_map)
         /\ stale' = StaleAfter(stale, out, som_map')
         /\ last_tool' = [op |-> tool, outcome |-> out,
                          dispatched |-> Dispatched(out), on_stale |-> stale,
                          mark_id |-> 0]
  /\ UNCHANGED toolsFixed

\* _execute_tool for look_at_screen, find_element, task_complete and an
\* unknown name: the table is left alone.
ToolPassive ==
  /\ driver = "tools"
  /\ \E tool \in PassiveTools, out \in {"returned", "raised_before"} :
       /\ (tool = "unknown" => out = "returned")
       /\ last_tool' = [op |-> tool, outcome |-> out, dispatched |-> FALSE,
                        on_stale |-> stale, mark_id |-> 0]
  /\ UNCHANGED <<som_map, stale>>
  /\ UNCHANGED toolsFixed

NextTools ==
  \/ ToolLookAtScreenSom
  \/ ToolClickMark
  \/ ToolAction
  \/ ToolPassive

(* ---- driver "detect": HybridElementDetector.detect ---------------------- *)
(* perception/element_detector.py                                           *)

\* Everything but the variables of the pure functions, in its initial state.
InitNonPure ==
  /\ InitPlanVars
  /\ InitRecVars
  /\ max_recovery_attempts = 0
  /\ InitLoopVars
  /\ InitAgentVars
  /\ InitCtlVars
  /\ som_map = {} /\ stale = FALSE /\ last_tool = NoCall

nonPureVars == <<planVars, recVars, loopVars, agentVars, ctlVars, toolVars>>

\* BoundingRect, with its width and height properties.
BoundingRect(l, t, r, b) == [left |-> l, top |-> t, right |-> r, bottom |-> b]

width(r) == r.right - r.left

height(r) == r.bottom - r.top

Max(a, b) == IF a > b THEN a ELSE b

\* The rectangles the detectors report here: one row high, every span of
\* columns 0..MaxCoord.
DetectRects ==
  {BoundingRect(p[1], 0, p[2], 1) :
     p \in {q \in (0..MaxCoord) \X (0..MaxCoord) : q[1] < q[2]}}

SoMElementsOf(src) == {[bounding_rect |-> r, source |-> src] : r \in DetectRects}

SeqsUpTo(S, n) == UNION {[1..k -> S] : k \in 0..n}

\* The intersection area _overlaps_any computes for two rectangles that
\* intersect, and 0 when they do not (the `continue` branch).
Intersection(r1, r2) ==
  LET ix_left == Max(r1.left, r2.left)
      iy_top == Max(r1.top, r2.top)
      ix_right == Min(r1.right, r2.right)
      iy_bottom == Min(r1.bottom, r2.bottom)
  IN IF ix_right <= ix_left \/ iy_bottom <= iy_top THEN 0
     ELSE (ix_right - ix_left) * (iy_bottom - iy_top)

\* iou >= iou_threshold for the default threshold 0.5, with
\* iou = intersection / max(1, union): 2 * intersection >= max(1, union).
IouAtLeastHalf(r1, r2) ==
  LET intersection == Intersection(r1, r2)
      area1 == Max(1, width(r1) * height(r1))
      area2 == Max(1, width(r2) * height(r2))
      union == area1 + area2 - intersection
  IN intersection > 0 /\ 2 * intersection >= Max(1, union)

\* _overlaps_any(elem, others) with the default threshold.
_overlaps_any(elem, others) ==
  \E k \in DOMAIN others :
    IouAtLeastHalf(elem.bounding_rect, others[k].bounding_rect)

Keep(elem, uia) == ~_overlaps_any(elem, uia)

\* detect, given what the two sources returned.
detect(uia, cdp) ==
  IF cdp = <<>> THEN uia
  ELSE IF uia = <<>> THEN cdp
  ELSE uia \o SelectSeq(cdp, LAMBDA e : Keep(e, uia))

InitDetect ==
  /\ driver = "detect"
  /\ InitNonPure
  /\ uia_elements \in SeqsUpTo(SoMElementsOf("uia"), MaxUia)
  /\ cdp_elements \in SeqsUpTo(SoMElementsOf("cdp"), MaxCdp)
  /\ merged = NotCalled
  /\ InitAnnVars
  /\ InitGroundVars
  /\ InitStrategyVars
  /\ InitCacheVars

Detect ==
  /\ driver = "detect"
  /\ merged = NotCalled
  /\ merged' = [op |-> "detect", out |-> detect(uia_elements, cdp_elements)]
  /\ UNCHANGED <<driver, nonPureVars, uia_elements, cdp_elements, annVars,
                 groundVars, strategyVars, cacheVars>>

NextDetect == Detect

SpecDetect == InitDetect /\ [][NextDetect]_vars

(* ---- driver "annotate": SoMAnnotator.annotate --------------------------- *)
(* perception/som_annotator.py                                              *)

\* SoMAnnotator.min_element_size, its default.
min_element_size == 8

\* A detected element as the detectors hand it over: mark_id 0.
SoMElement(r, enabled, visible) ==
  [mark_id |-> 0, bounding_rect |-> r, is_enabled |-> enabled,
   is_visible |-> visible]

\* The elements the annotator is given here, on a screenshot of
\* ScreenSize x ScreenSize: an element of the minimum size at the origin,
\* the same moved and narrowed along x, moved and flattened along y, and
\* disabled or invisible.
XPositions == {0 - min_element_size - 1, 0 - min_element_size, 0,
               ScreenSize, ScreenSize + 1}

YPositions == {0 - min_element_size - 1, 0 - min_element_size, 1,
               ScreenSize, ScreenSize + 1}

Sizes == {min_element_size - 1, min_element_size}

AnnElements ==
  {SoMElement(BoundingRect(l, 0, l + w, min_element_size), TRUE, TRUE) :
     l \in XPositions, w \in Sizes}
  \cup
  {SoMElement(BoundingRect(0, t, min_element_size, t + h), TRUE, TRUE) :
     t \in YPositions, h \in Sizes}
  \cup
  {SoMElement(BoundingRect(0, 0, min_element_size, min_element_size), e, v) :
     e \in BOOLEAN, v \in BOOLEAN}

\* The three `continue` tests of _filter_elements, negated.
PassesFilter(elem, sw, sh) ==
  LET r == elem.bounding_rect
  IN /\ ~(width(r) < min_element_size \/ height(r) < min_element_size)
     /\ ~(r.right < 0 \/ r.bottom < 0 \/ r.left > sw \/ r.top > sh)
     /\ ~(~elem.is_enabled \/ ~elem.is_visible)

\* The sort key of _filter_elements compared with left before top
SortKeyLess_left_first(a, b) ==
  \/ a.bounding_rect.left < b.bounding_rect.left
  \/ /\ a.bounding_rect.left = b.bounding_rect.left
     /\ a.bounding_rect.top < b.bounding_rect.top

\* The sort key (bounding_rect.top, bounding_rect.left), compared as tuples.
SortKeyLess(a, b) ==
  \/ a.bounding_rect.top < b.bounding_rect.top
  \/ /\ a.bounding_rect.top = b.bounding_rect.top
     /\ a.bounding_rect.left < b.bounding_rect.left

\* elem put into a sorted list before the first element with a greater key.
InsertSorted(elem, sorted) ==
  LET before == {k \in DOMAIN sorted : SortKeyLess(elem, sorted[k])}
      at == IF before = {} THEN Len(sorted) + 1
            ELSE CHOOSE k \in before : \A j \in before : k <= j
  IN SubSeq(sorted, 1, at - 1) \o <<elem>> \o SubSeq(sorted, at, Len(sorted))

RECURSIVE StableSort(_)
\* list.sort(key=...): stable, elements with equal keys keep their order.
StableSort(seq) ==
  IF seq = <<>> THEN <<>>
  ELSE InsertSorted(seq[Len(seq)], StableSort(SubSeq(seq, 1, Len(seq) - 1)))

\* _filter_elements: filter, sort, cap.
_filter_elements(elements, sw, sh, cap) ==
  LET result == StableSort(SelectSeq(elements,
                                     LAMBDA e : PassesFilter(e, sw, sh)))
  IN SubSeq(result, 1, Min(cap, Len(result)))

\* enumerate(filtered): the element at position pos (from 1) has idx
\* pos - 1 and is given mark_id idx + 1.
MarkIdOf(pos) == (pos - 1) + 1

\* annotate, as far as the mark table goes: the ids are assigned in the
\* order of the filtered list and the dict is built from them.  (The
\* elements are distinct objects, as the detectors create them.)
annotate(elements, sw, sh, cap) ==
  LET filtered == _filter_elements(elements, sw, sh, cap)
      marked == [pos \in DOMAIN filtered |->
                   [filtered[pos] EXCEPT !.mark_id = MarkIdOf(pos)]]
      ids == {marked[pos].mark_id : pos \in DOMAIN marked}
  IN [id \in ids |->
        marked[CHOOSE pos \in DOMAIN marked :
                 /\ marked[pos].mark_id = id
                 /\ \A q \in DOMAIN marked :
                      marked[q].mark_id = id => q <= pos]]

InitAnnotate ==
  /\ driver = "annotate"
  /\ InitNonPure
  /\ InitDetectVars
  /\ InitGroundVars
  /\ InitStrategyVars
  /\ InitCacheVars
  /\ ann_elements \in SeqsUpTo(AnnElements, MaxElems)
  /\ max_marks \in 1..MaxMarks
  /\ mark_map = NotCalled

Annotate ==
  /\ driver = "annotate"
  /\ mark_map = NotCalled
  /\ mark_map' = [op |-> "annotate",
                  out |-> annotate(ann_elements, ScreenSize, ScreenSize,
                                   max_marks)]
  /\ UNCHANGED <<driver, nonPureVars, detectVars, ann_elements, max_marks,
                 groundVars, strategyVars, cacheVars>>

NextAnnotate == Annotate

SpecAnnotate == InitAnnotate /\ [][NextAnnotate]_vars

(* ---- driver "ground": ElementGrounder.ground ----------------------------- *)
(* brain/grounding.py, models/ui_element.py                                 *)
(* A string is the sequence of its characters; an Optional value is <<>>    *)
(* for None and a one-element sequence (a pair for coordinates) otherwise.  *)
(* Scores are fixed-point numbers: One stands for the float 1.0 of a score  *)
(* or confidence, SimOne for the float 1.0 of a string similarity.  The     *)
(* inputs are chosen so that every division below is exact.                 *)

One == 420000
SimOne == 840
FallbackRadius == 150

Abs(n) == IF n < 0 THEN -n ELSE n

\* (dx**2 + dy**2) ** 0.5, for the offsets whose distance is a whole number
Hypot(dx, dy) ==
  LET a == Abs(dx)
      b == Abs(dy)
  IN IF a = 0 THEN b
     ELSE IF b = 0 THEN a
     ELSE CHOOSE r \in Max(a, b)..(a + b) : r * r = a * a + b * b

\* BoundingRect.center
center(r) == <<(r.left + r.right) \div 2, (r.top + r.bottom) \div 2>>

LowerCase ==
  [c \in {"B", "P", "S"} |-> CASE c = "B" -> "b" [] c = "P" -> "p" [] OTHER -> "s"]

\* str.lower
lower(s) ==
  [i \in 1..Len(s) |-> IF s[i] \in DOMAIN LowerCase THEN LowerCase[s[i]] ELSE s[i]]

\* str.strip
RECURSIVE strip(_)
strip(s) ==
  IF s = <<>> THEN s
  ELSE IF Head(s) = " " THEN strip(Tail(s))
  ELSE IF s[Len(s)] = " " THEN strip(SubSeq(s, 1, Len(s) - 1))
  ELSE s

\* the Python test `s in t` on strings
IsSubstring(s, t) ==
  \E i \in 0..(Len(t) - Len(s)) : SubSeq(t, i + 1, i + Len(s)) = s

\* The total size of SequenceMatcher(None, a, b).get_matching_blocks():
\* the longest common block, the earliest in a and then in b among the
\* longest, then the same to its left and to its right.
RECURSIVE Matches(_, _)

\* the blocks <<i, j, k>> with a[i .. i+k-1] = b[j .. j+k-1]
CommonBlocks(a, b) ==
  {m \in (1..Len(a)) \X (1..Len(b)) \X (1..Min(Len(a), Len(b))) :
     /\ m[1] + m[3] - 1 <= Len(a)
     /\ m[2] + m[3] - 1 <= Len(b)
     /\ SubSeq(a, m[1], m[1] + m[3] - 1) = SubSeq(b, m[2], m[2] + m[3] - 1)}

\* SequenceMatcher.find_longest_match
LongestOf(blocks) ==
  CHOOSE m \in blocks : \A o \in blocks :
    \/ m[3] > o[3]
    \/ m[3] = o[3] /\ m[1] < o[1]
    \/ m[3] = o[3] /\ m[1] = o[1] /\ m[2] <= o[2]

\* the block `best` and the matches to its left and to its right
MatchesAround(a, b, best) ==
  best[3]
  + Matches(SubSeq(a, 1, best[1] - 1), SubSeq(b, 1, best[2] - 1))
  + Matches(SubSeq(a, best[1] + best[3], Len(a)),
            SubSeq(b, best[2] + best[3], Len(b)))

MatchesIn(a, b, blocks) ==
  IF blocks = {} THEN 0 ELSE MatchesAround(a, b, LongestOf(blocks))

Matches(a, b) == MatchesIn(a, b, CommonBlocks(a, b))

\* _name_similarity on the lowered and stripped strings
Similarity(s1_lower, s2_lower) ==
  IF s1_lower = s2_lower THEN SimOne
  ELSE IF IsSubstring(s1_lower, s2_lower) \/ IsSubstring(s2_lower, s1_lower)
    THEN (8 * SimOne) \div 10
  ELSE (2 * Matches(s1_lower, s2_lower) * SimOne)
         \div (Len(s1_lower) + Len(s2_lower))

\* ElementGrounder._name_similarity, in units of 1/SimOne
_name_similarity(s1, s2) ==
  IF s1 = <<>> \/ s2 = <<>> THEN 0
  ELSE Similarity(strip(lower(s1)), strip(lower(s2)))

ControlTypes == {"BUTTON", "EDIT", "TEXT"}

\* ControlType.value
ControlTypeValue(t) ==
  CASE t = "BUTTON" -> <<"B", "u", "t", "t", "o", "n">>
    [] t = "EDIT" -> <<"E", "d", "i", "t">>
    [] OTHER -> <<"T", "e", "x", "t">>

\* ElementGrounder.TYPE_KEYWORDS
TYPE_KEYWORDS(t) ==
  CASE t = "BUTTON" -> {<<"b", "u", "t", "t", "o", "n">>, <<"b", "t", "n">>, <<"c", "l", "i", "c", "k">>, <<"p", "r", "e", "s", "s">>}
    [] t = "EDIT" ->
         {<<"i", "n", "p", "u", "t">>, <<"t", "e", "x", "t", "b", "o", "x">>,
          <<"t", "e", "x", "t", " ", "f", "i", "e", "l", "d">>, <<"e", "d", "i", "t">>,
          <<"s", "e", "a", "r", "c", "h", " ", "b", "o", "x">>,
          <<"s", "e", "a", "r", "c", "h", " ", "b", "a", "r">>,
          <<"f", "i", "e", "l", "d">>}
    [] OTHER -> {<<"t", "e", "x", "t">>, <<"l", "a", "b", "e", "l">>}

\* ElementGrounder._type_matches
_type_matches(element_type, described_type) ==
  LET described_lower == lower(described_type)
  IN \/ IsSubstring(lower(ControlTypeValue(element_type)), described_lower)
     \/ \E kw \in TYPE_KEYWORDS(element_type) : IsSubstring(kw, described_lower)

UIElement(n, t, v, p, r, enabled, visible) ==
  [name |-> n, control_type |-> t, value |-> v, parent_name |-> p,
   bounding_rect |-> r, is_enabled |-> enabled, is_visible |-> visible]

ElementDescription(n, txt, t, p, c) ==
  [name |-> n, text_content |-> txt, control_type |-> t,
   parent_description |-> p, approximate_coords |-> c]

GroundingResult(e, c, m, cands, xy) ==
  [element |-> e, confidence |-> c, match_method |-> m, candidates |-> cands,
   coordinates |-> xy]

\* GroundingResult.success
success(result) ==
  result.element # <<>> /\ 10 * result.confidence > 3 * One

\* ElementGrounder.__init__ with its defaults, in hundredths
DefaultGrounder ==
  [name_match_threshold |-> 50, spatial_weight |-> 30, type_match_bonus |-> 15,
   min_confidence |-> 30]

\* similarity * (tenths / 10), as a score
Weighted(similarity, tenths) == similarity * tenths * (One \div (SimOne * 10))

\* a name contribution with the gate the wrong way round
NameContribution_gate_inverted(cfg, name_score) ==
  IF 100 * name_score > cfg.name_match_threshold * SimOne
    THEN 0
    ELSE Weighted(name_score, 5)

\* _score_element, part 1: what the name similarity adds to the score
NameContribution(cfg, name_score) ==
  IF 100 * name_score > cfg.name_match_threshold * SimOne
    THEN Weighted(name_score, 5)
    ELSE 0

\* _score_element, part 4: proximity_score for a center and a target
ProximityOf(c, target, max_dist) ==
  One - (One * Min(Hypot(target[1] - c[1], target[2] - c[2]), max_dist))
          \div max_dist

Proximity(element, description, screen_size) ==
  IF description.approximate_coords # <<>> /\ element.bounding_rect # <<>>
    THEN ProximityOf(center(element.bounding_rect[1]),
                     description.approximate_coords,
                     Hypot(screen_size[1], screen_size[2]))
    ELSE 0

Above(similarity, hundredths) == 100 * similarity > hundredths * SimOne

\* _score_element: the score and the method tag from the five similarities
\* and tests; p names which parts of the description and element are there
ScoreOf(cfg, p, name_score, value_score, text_score, type_part, proximity_score, parent_score) ==
  [score |->
     (IF p.named THEN NameContribution(cfg, name_score) ELSE 0)
     + (IF p.named /\ p.valued /\ Above(value_score, cfg.name_match_threshold)
          THEN Weighted(value_score, 3) ELSE 0)
     + (IF p.texted THEN Weighted(text_score, 4) ELSE 0)
     + (IF type_part THEN (cfg.type_match_bonus * One) \div 100 ELSE 0)
     + (IF p.placed /\ 10 * proximity_score > 7 * One
          THEN (proximity_score * cfg.spatial_weight) \div 100 ELSE 0)
     + (IF p.parented /\ Above(parent_score, 50)
          THEN Weighted(parent_score, 1) ELSE 0),
   method_parts |->
     (IF p.named /\ Above(name_score, cfg.name_match_threshold)
        THEN <<"name">> ELSE <<>>)
     \o (IF p.named /\ p.valued /\ Above(value_score, cfg.name_match_threshold)
          THEN <<"value">> ELSE <<>>)
     \o (IF p.texted /\ Above(text_score, 50) THEN <<"text">> ELSE <<>>)
     \o (IF type_part THEN <<"type">> ELSE <<>>)
     \o (IF p.placed /\ 10 * proximity_score > 7 * One
          THEN <<"spatial">> ELSE <<>>)
     \o (IF p.parented /\ Above(parent_score, 50) THEN <<"parent">> ELSE <<>>)]

\* method = "+".join(method_parts) if method_parts else "none"
Tagged(r) ==
  [score |-> r.score,
   method |-> IF r.method_parts = <<>> THEN <<"none">> ELSE r.method_parts]

\* ElementGrounder._score_element: the score and the parts of the method tag
_score_element(cfg, element, description, screen_size) ==
  Tagged(ScoreOf(cfg,
                 [named |-> description.name # <<>>,
                  valued |-> element.value # <<>>,
                  texted |-> description.text_content # <<>>,
                  placed |-> /\ description.approximate_coords # <<>>
                             /\ element.bounding_rect # <<>>,
                  parented |-> /\ description.parent_description # <<>>
                               /\ element.parent_name # <<>>],
                 _name_similarity(element.name, description.name),
                 _name_similarity(element.value, description.name),
                 _name_similarity(element.name, description.text_content),
                 /\ description.control_type # <<>>
                 /\ _type_matches(element.control_type, description.control_type),
                 Proximity(element, description, screen_size),
                 _name_similarity(element.parent_name,
                                  description.parent_description)))

\* the squared distance of an element's center from (x, y)
Distance2(e, x, y) ==
  LET c == center(e.bounding_rect[1])
  IN (c[1] - x) * (c[1] - x) + (c[2] - y) * (c[2] - y)

\* sorted(results, key=distance): stable, so that of two elements at the
\* same distance the one that came first in the tree stays first
SortByDistance(s, x, y) ==
  LET pos(i) ==
        1 + Cardinality({j \in 1..Len(s) :
                           \/ Distance2(s[j], x, y) < Distance2(s[i], x, y)
                           \/ Distance2(s[j], x, y) = Distance2(s[i], x, y) /\ j < i})
  IN [k \in 1..Len(s) |-> s[CHOOSE i \in 1..Len(s) : pos(i) = k]]

\* candidates.sort(key=score, reverse=True): stable, so that of two
\* candidates with the same score the one scored first stays first
SortByScore(s) ==
  LET pos(i) ==
        1 + Cardinality({j \in 1..Len(s) :
                           \/ s[j].score > s[i].score
                           \/ s[j].score = s[i].score /\ j < i})
  IN [k \in 1..Len(s) |-> s[CHOOSE i \in 1..Len(s) : pos(i) = k]]

\* UIElementTree.find_near_point
find_near_point(all_elements, x, y, radius) ==
  SortByDistance(SelectSeq(all_elements,
                           LAMBDA e : /\ e.bounding_rect # <<>>
                                      /\ Distance2(e, x, y) <= radius * radius),
                 x, y)

FirstN(s, n) == SubSeq(s, 1, Min(n, Len(s)))

\* ground_by_coordinates: the result for the list `clickable`
FallbackResult(x, y, radius, clickable) ==
  IF clickable = <<>>
    THEN GroundingResult(<<>>, 0, <<"spatial_fallback">>, <<>>, <<>>)
    ELSE GroundingResult(
           <<clickable[1]>>,
           Max(0, One - (One * Hypot(center(clickable[1].bounding_rect[1])[1] - x,
                                     center(clickable[1].bounding_rect[1])[2] - y))
                          \div radius),
           <<"spatial_fallback">>,
           [i \in 1..Min(3, Len(clickable) - 1) |-> <<clickable[i + 1], One \div 2>>],
           center(clickable[1].bounding_rect[1]))

\* ElementGrounder.ground_by_coordinates
ground_by_coordinates(approximate_coords, all_elements, radius) ==
  FallbackResult(
    approximate_coords[1], approximate_coords[2], radius,
    SelectSeq(find_near_point(all_elements, approximate_coords[1],
                              approximate_coords[2], radius),
              LAMBDA e : e.is_enabled /\ e.bounding_rect # <<>>))

\* ground: the test of the elements it scores
IsEligible(e) == e.is_visible /\ e.bounding_rect # <<>> /\ e.is_enabled

Eligible(all_elements) == SelectSeq(all_elements, IsEligible)

\* ground: an eligible element with its score and method
Scored(cfg, element, description, screen_size) ==
  [element |-> element]
  @@ _score_element(cfg, element, description, screen_size)

\* ground: the candidate list after candidates.sort(reverse=True)
Candidates(cfg, description, eligible, screen_size) ==
  SortByScore(SelectSeq([i \in 1..Len(eligible) |->
                           Scored(cfg, eligible[i], description, screen_size)],
                        LAMBDA c : 10 * c.score > One))

Pairs(cands) == [i \in 1..Len(cands) |-> <<cands[i].element, cands[i].score>>]

\* ground: the result for the sorted candidate list
GroundWith(cfg, description, all_elements, candidates) ==
  IF candidates = <<>>
    THEN IF description.approximate_coords # <<>>
           THEN ground_by_coordinates(description.approximate_coords,
                                      all_elements, FallbackRadius)
           ELSE GroundingResult(<<>>, 0, <<"none">>, <<>>, <<>>)
  ELSE IF 100 * candidates[1].score < cfg.min_confidence * One
    THEN IF /\ description.approximate_coords # <<>>
            /\ success(ground_by_coordinates(description.approximate_coords,
                                              all_elements, FallbackRadius))
           THEN ground_by_coordinates(description.approximate_coords,
                                      all_elements, FallbackRadius)
           ELSE GroundingResult(<<>>, candidates[1].score, candidates[1].method,
                                Pairs(FirstN(candidates, 5)), <<>>)
  ELSE GroundingResult(<<candidates[1].element>>, candidates[1].score,
                       candidates[1].method,
                       Pairs(FirstN(Tail(candidates), 5)),
                       center(candidates[1].element.bounding_rect[1]))

\* ElementGrounder.ground
ground(cfg, description, all_elements, screen_size) ==
  GroundWith(cfg, description, all_elements,
             Candidates(cfg, description, Eligible(all_elements), screen_size))

\* a grounder that lowers its own threshold after a failed call
GrounderAfter_adapts(cfg, result) ==
  IF result.element = <<>> /\ cfg.min_confidence > 10
    THEN [cfg EXCEPT !.min_confidence = cfg.min_confidence - 10]
    ELSE cfg

\* The grounder's fields after a ground call: ground assigns none of them.
GrounderAfter(cfg, result) == cfg

\* the inputs: names, rectangles around chosen centers, elements, descriptions
Target == <<400, 300>>

RectAround(cx, cy) == <<BoundingRect(cx - 20, cy - 10, cx + 20, cy + 10)>>

ElementNames == {<<"s", "a", "v">>, <<"s", "a", "t">>, <<"s", "a">>, <<"t", "v">>}

GroundElements ==
  {UIElement(n, "BUTTON", <<>>, <<>>, RectAround(430, 300), TRUE, TRUE) :
     n \in ElementNames}
  \cup
  {UIElement(<<"s", "a", "v">>, "BUTTON", <<>>, <<"u", "i">>, RectAround(520, 300), TRUE, TRUE),
   UIElement(<<"s", "a", "t">>, "EDIT", <<"s", "a", "v">>, <<>>, RectAround(520, 300), TRUE, TRUE),
   UIElement(<<"s", "a", "v">>, "BUTTON", <<>>, <<>>, RectAround(490, 420), TRUE, TRUE),
   UIElement(<<"t", "v">>, "TEXT", <<>>, <<>>, RectAround(580, 300), TRUE, TRUE),
   UIElement(<<"s", "a", "v">>, "BUTTON", <<>>, <<>>, RectAround(400, 300), TRUE, FALSE),
   UIElement(<<"s", "a", "v">>, "BUTTON", <<>>, <<>>, RectAround(430, 300), FALSE, TRUE),
   UIElement(<<"s", "a", "v">>, "BUTTON", <<>>, <<>>, <<>>, TRUE, TRUE)}

\* the descriptions of the calls made between two calls with g_desc
OtherDescriptions ==
  {ElementDescription(<<>>, <<>>, <<>>, <<"u", "i">>, <<>>),
   ElementDescription(<<"S", "a", "v", " ">>, <<>>, <<"B", "u", "t", "t", "o", "n">>, <<>>, <<>>),
   ElementDescription(<<>>, <<>>, <<>>, <<>>, Target)}

Descriptions ==
  {ElementDescription(n, txt, t, <<>>, c) :
     n \in {<<>>, <<"s", "a", "v">>},
     txt \in {<<>>, <<"s", "a", "t">>},
     t \in {<<>>, <<"b", "u", "t", "t", "o", "n">>, <<"t", "e", "x", "t", " ", "f", "i", "e", "l", "d">>},
     c \in {<<>>, Target}}
  \cup OtherDescriptions

ScreenSizes == {<<800, 600>>}

InitGround ==
  /\ driver = "ground"
  /\ InitNonPure
  /\ InitDetectVars
  /\ InitAnnVars
  /\ InitStrategyVars
  /\ InitCacheVars
  /\ g_tree \in SeqsUpTo(GroundElements, MaxTree)
  /\ g_screen \in ScreenSizes
  /\ grounder = DefaultGrounder
  /\ g_desc \in Descriptions
  /\ g_scores = <<>>
  /\ g_result = NotCalled
  /\ g_first = NotCalled
  /\ g_calls = 0
  /\ g_other_called = FALSE

\* ground(g_desc, g_tree, g_screen), again and again
Ground ==
  /\ driver = "ground"
  /\ g_calls < MaxGroundCalls
  /\ g_calls' = g_calls + 1
  /\ g_result' = [op |-> "ground",
                  out |-> ground(grounder, g_desc, g_tree, g_screen)]
  /\ g_first' = IF g_first.op = "ground" THEN g_first ELSE g_result'
  /\ g_scores' =
       [i \in 1..Len(g_tree) |->
          IF IsEligible(g_tree[i])
            THEN <<_score_element(grounder, g_tree[i], g_desc, g_screen)>>
            ELSE <<>>]
  /\ grounder' = GrounderAfter(grounder, g_result'.out)
  /\ UNCHANGED <<driver, nonPureVars, detectVars, annVars, strategyVars, cacheVars,
                 g_tree, g_screen, g_desc, g_other_called>>

\* ground with another description on the same grounder and tree
GroundOther ==
  /\ driver = "ground"
  /\ g_calls < MaxGroundCalls
  /\ \E d \in OtherDescriptions :
       /\ d # g_desc
       /\ grounder' = GrounderAfter(grounder, ground(grounder, d, g_tree, g_screen))
  /\ g_other_called' = TRUE
  /\ UNCHANGED <<driver, nonPureVars, detectVars, annVars, strategyVars, cacheVars,
                 g_tree, g_screen, g_desc, g_scores, g_result, g_first, g_calls>>

NextGround == Ground \/ GroundOther

SpecGround == InitGround /\ [][NextGround]_vars

(* ---- driver "strategy": ErrorRecovery.analyze_error and ------------------ *)
(* ---- ErrorRecovery.get_recovery_strategy, called directly --------------- *)
(* brain/error_recovery.py                                                  *)

\* the words of the action-type heuristics of analyze_error
HeuristicWords == {"not", "click", "open", "type", "enter", "input"}

KeywordsAndWords ==
  UNION {ERROR_KEYWORDS(ERROR_KEYWORDS_ORDER[i]) : i \in 1..Len(ERROR_KEYWORDS_ORDER)}
  \cup HeuristicWords

\* the characters of a keyword or word
Chars(w) ==
  CASE w = "didn't click" -> <<"d", "i", "d", "n", "'", "t", " ", "c", "l", "i", "c", "k">>
    [] w = "missed" -> <<"m", "i", "s", "s", "e", "d">>
    [] w = "wrong position" -> <<"w", "r", "o", "n", "g", " ", "p", "o", "s", "i", "t", "i", "o", "n">>
    [] w = "not clicked" -> <<"n", "o", "t", " ", "c", "l", "i", "c", "k", "e", "d">>
    [] w = "click failed" -> <<"c", "l", "i", "c", "k", " ", "f", "a", "i", "l", "e", "d">>
    [] w = "not found" -> <<"n", "o", "t", " ", "f", "o", "u", "n", "d">>
    [] w = "doesn't exist" -> <<"d", "o", "e", "s", "n", "'", "t", " ", "e", "x", "i", "s", "t">>
    [] w = "cannot find" -> <<"c", "a", "n", "n", "o", "t", " ", "f", "i", "n", "d">>
    [] w = "no element" -> <<"n", "o", " ", "e", "l", "e", "m", "e", "n", "t">>
    [] w = "not visible" -> <<"n", "o", "t", " ", "v", "i", "s", "i", "b", "l", "e">>
    [] w = "popup" -> <<"p", "o", "p", "u", "p">>
    [] w = "dialog" -> <<"d", "i", "a", "l", "o", "g">>
    [] w = "modal" -> <<"m", "o", "d", "a", "l">>
    [] w = "blocked" -> <<"b", "l", "o", "c", "k", "e", "d">>
    [] w = "overlay" -> <<"o", "v", "e", "r", "l", "a", "y">>
    [] w = "typing failed" -> <<"t", "y", "p", "i", "n", "g", " ", "f", "a", "i", "l", "e", "d">>
    [] w = "text not entered" -> <<"t", "e", "x", "t", " ", "n", "o", "t", " ", "e", "n", "t", "e", "r", "e", "d">>
    [] w = "input failed" -> <<"i", "n", "p", "u", "t", " ", "f", "a", "i", "l", "e", "d">>
    [] w = "timeout" -> <<"t", "i", "m", "e", "o", "u", "t">>
    [] w = "too slow" -> <<"t", "o", "o", " ", "s", "l", "o", "w">>
    [] w = "not responding" -> <<"n", "o", "t", " ", "r", "e", "s", "p", "o", "n", "d", "i", "n", "g">>
    [] w = "moved" -> <<"m", "o", "v", "e", "d">>
    [] w = "position changed" -> <<"p", "o", "s", "i", "t", "i", "o", "n", " ", "c", "h", "a", "n", "g", "e", "d">>
    [] w = "relocated" -> <<"r", "e", "l", "o", "c", "a", "t", "e", "d">>
    [] w = "not" -> <<"n", "o", "t">>
    [] w = "click" -> <<"c", "l", "i", "c", "k">>
    [] w = "open" -> <<"o", "p", "e", "n">>
    [] w = "type" -> <<"t", "y", "p", "e">>
    [] w = "enter" -> <<"e", "n", "t", "e", "r">>
    [] OTHER -> <<"i", "n", "p", "u", "t">>

\* analyze_error: combined_text = f"{issues} {observation}".lower()
combined_text(issues, observation) == lower(issues \o <<" ">> \o observation)

\* the keywords and words for which `kw.lower() in combined_text` holds
Occurring(text) == {w \in KeywordsAndWords : IsSubstring(lower(Chars(w)), text)}

IssueTexts ==
  {<<>>,
   <<"p", "o", "p", "u", "p", " ", "b", "l", "o", "c", "k", "i", "n", "g", " ", "v", "i", "e", "w">>,
   <<"P", "o", "p", "u", "p", " ", "b", "l", "o", "c", "k", "i", "n", "g", " ", "v", "i", "e", "w">>,
   <<"d", "i", "a", "l", "o", "g", " ", "n", "o", "t", " ", "f", "o", "u", "n", "d">>,
   <<"d", "i", "d", " ", "n", "o", "t", " ", "o", "p", "e", "n">>,
   <<"t", "e", "x", "t", " ", "n", "o", "t", " ", "e", "n", "t", "e", "r", "e", "d">>}

ObservationTexts == {<<>>, <<"p", "o", "s", "i", "t", "i", "o", "n", " ", "c", "h", "a", "n", "g", "e", "d">>}

AnalyzedActions == {"click", "type"}

InitStrategy ==
  /\ driver = "strategy"
  /\ InitPlanVars
  /\ max_recovery_attempts = MaxCeiling
  /\ cr_call = NoCall
  /\ attempt_counts = [k \in StrategyKeys |-> 0]
  /\ InitLoopVars
  /\ InitAgentVars
  /\ InitCtlVars
  /\ InitToolVars
  /\ InitPureVars

\* analyze_error(action, {"issues": ..., "observation": ...}) on the fresh
\* planner.  analyze_error reads and writes no field of the planner, so the
\* analyses of later rounds are left out and ae_call is the analysis that
\* came right before the last get_recovery_strategy call, if any.
ApiAnalyzeError ==
  /\ driver = "strategy"
  /\ gs_calls = 0
  /\ \E a \in AnalyzedActions, issues \in IssueTexts, observation \in ObservationTexts :
       ae_call' = [op |-> "analyze_error", action |-> a, issues |-> issues,
                   observation |-> observation,
                   ret |-> analyze_error(a, Occurring(combined_text(issues, observation)))]
  /\ UNCHANGED <<driver, nonPureVars, detectVars, annVars, groundVars, cacheVars,
                 gs_call, gs_calls, returned>>

\* get_recovery_strategy(error_type, action, attempt)
ApiGetRecoveryStrategy ==
  /\ driver = "strategy"
  /\ gs_calls < MaxStrategyCalls
  /\ \E k \in ErrorType, n \in 0..MaxAttempt :
       LET g == get_recovery_strategy(k, n, attempt_counts) IN
         /\ attempt_counts' = g.counts
         /\ gs_call' = [op |-> "get_recovery_strategy", kind |-> k, attempt |-> n,
                        fresh |-> gs_calls = 0, ret |-> g.strategy.name]
         /\ returned' = IF g.strategy = NoStrategy THEN returned
                        ELSE [returned EXCEPT ![<<k, g.strategy.name>>] = @ + 1]
  /\ gs_calls' = gs_calls + 1
  /\ ae_call' = IF gs_calls = 0 THEN ae_call ELSE NoCall
  /\ UNCHANGED <<driver, planVars, max_recovery_attempts, cr_call, loopVars,
                 agentVars, ctlVars, toolVars, detectVars, annVars, groundVars,
                 cacheVars>>

NextStrategy == ApiAnalyzeError \/ ApiGetRecoveryStrategy

SpecStrategy == InitStrategy /\ [][NextStrategy]_vars

(* ------------------------- ElementCache (memory/short_term.py) --------- *)

\* Element names as strings of characters: two names in several spellings.
CacheNames ==
  {<<"s">>, <<"S", " ">>, <<" ", "s">>, <<"b">>, <<"B">>}

\* (x, y) coordinates
CacheCoords == {<<x, 1>> : x \in 1..MaxCacheCoord}

\* None, as get returns it
NoCoords == <<>>

\* key = name.lower().strip(), ignoring the letter case
CacheKey_case_sensitive(n) == strip(n)

\* key = name.lower().strip()
CacheKey(n) == strip(lower(n))

\* key in self._cache
InCache(cache, k) == \E i \in DOMAIN cache : cache[i].key = k

\* self._cache[key]
EntryOf(cache, k) == cache[CHOOSE i \in DOMAIN cache : cache[i].key = k]

\* del self._cache[key]
RECURSIVE DelKey(_, _)
DelKey(cache, k) ==
  IF cache = <<>> THEN <<>>
  ELSE IF Head(cache).key = k THEN Tail(cache)
  ELSE <<Head(cache)>> \o DelKey(Tail(cache), k)

\* while len(self._cache) >= self.max_size: self._cache.popitem(last=False)
RECURSIVE EvictOldest(_, _)
EvictOldest(cache, size) ==
  IF Len(cache) >= size THEN EvictOldest(Tail(cache), size) ELSE cache

\* ElementCache.get at time t: the value returned and the cache afterwards
cache_get(cache, n, t, ttl) ==
  LET k == CacheKey(n) IN
    IF ~InCache(cache, k) THEN [ret |-> NoCoords, cache |-> cache]
    ELSE LET e == EntryOf(cache, k)
             age == t - e.timestamp
         IN IF age > ttl
              THEN [ret |-> NoCoords, cache |-> DelKey(cache, k)]
              ELSE [ret |-> e.coords, cache |-> Append(DelKey(cache, k), e)]

\* ElementCache.set at time t: the cache afterwards.  The field raw of an
\* entry is history: the name as the caller spelled it.
cache_set(cache, n, c, t, size) ==
  LET k == CacheKey(n) IN
    Append(EvictOldest(IF InCache(cache, k) THEN DelKey(cache, k) ELSE cache, size),
           [key |-> k, coords |-> c, timestamp |-> t, raw |-> n])

\* ElementCache.invalidate: the cache afterwards
cache_invalidate(cache, n) ==
  LET k == CacheKey(n) IN IF InCache(cache, k) THEN DelKey(cache, k) ELSE cache

\* the spellings of the entries of a cache
RawNames(cache) == {cache[i].raw : i \in DOMAIN cache}

\* a name without the blanks around it
Core(n) ==
  LET idx == {i \in DOMAIN n : n[i] # " "} IN
    IF idx = {} THEN <<>>
    ELSE SubSeq(n, CHOOSE i \in idx : \A j \in idx : i <= j,
                   CHOOSE i \in idx : \A j \in idx : i >= j)

CasePairs == {<<"S", "s">>, <<"B", "b">>, <<"P", "p">>}

\* two names equal up to letter case and surrounding whitespace
SameName(a, b) ==
  /\ Len(Core(a)) = Len(Core(b))
  /\ \A i \in DOMAIN Core(a) :
       \/ Core(a)[i] = Core(b)[i]
       \/ <<Core(a)[i], Core(b)[i]>> \in CasePairs
       \/ <<Core(b)[i], Core(a)[i]>> \in CasePairs

InitCache ==
  /\ driver = "cache"
  /\ InitPlanVars
  /\ InitRecVars
  /\ max_recovery_attempts = 0
  /\ InitLoopVars
  /\ InitAgentVars
  /\ InitCtlVars
  /\ InitToolVars
  /\ InitDetectVars
  /\ InitAnnVars
  /\ InitGroundVars
  /\ InitStrategyVars
  /\ _cache = <<>>
  /\ max_size \in 1..MaxCacheSize
  /\ ttl_seconds \in 0..MaxTtl
  /\ clock = 0
  /\ stored = {}
  /\ ec_call = NoCall

cacheFrame == <<driver, nonPureVars, detectVars, annVars, groundVars, strategyVars>>

\* time passes between two calls
CacheTick ==
  /\ driver = "cache"
  /\ clock < MaxClock
  /\ clock' = clock + 1
  /\ UNCHANGED <<cacheFrame, _cache, max_size, ttl_seconds, stored, ec_call>>

\* ElementCache.set(name, coords)
CacheSet ==
  /\ driver = "cache"
  /\ \E n \in CacheNames, c \in CacheCoords :
       /\ _cache' = cache_set(_cache, n, c, clock, max_size)
       /\ stored' = {s \in stored : s.name \in RawNames(_cache') /\ ~SameName(s.name, n)}
                      \cup {[name |-> n, coords |-> c, at |-> clock]}
       /\ ec_call' = [op |-> "set", name |-> n, coords |-> c, at |-> clock]
  /\ UNCHANGED <<cacheFrame, max_size, ttl_seconds, clock>>

\* ElementCache.get(name)
CacheGet ==
  /\ driver = "cache"
  /\ \E n \in CacheNames :
       LET g == cache_get(_cache, n, clock, ttl_seconds) IN
         /\ _cache' = g.cache
         /\ stored' = {s \in stored : s.name \in RawNames(g.cache)}
         /\ ec_call' = [op |-> "get", name |-> n, ret |-> g.ret, at |-> clock,
                        in_force |-> stored]
  /\ UNCHANGED <<cacheFrame, max_size, ttl_seconds, clock>>

\* ElementCache.invalidate(name)
CacheInvalidate ==
  /\ driver = "cache"
  /\ \E n \in CacheNames :
       /\ _cache' = cache_invalidate(_cache, n)
       /\ stored' = {s \in stored : s.name \in RawNames(_cache')}
       /\ ec_call' = [op |-> "invalidate", name |-> n]
  /\ UNCHANGED <<cacheFrame, max_size, ttl_seconds, clock>>

\* ElementCache.clear()
CacheClear ==
  /\ driver = "cache"
  /\ _cache' = <<>>
  /\ stored' = {}
  /\ ec_call' = [op |-> "clear"]
  /\ UNCHANGED <<cacheFrame, max_size, ttl_seconds, clock>>

NextCache == CacheTick \/ CacheSet \/ CacheGet \/ CacheInvalidate \/ CacheClear

SpecCache == InitCache /\ [][NextCache]_vars

(* ------------------------- specifications ------------------------------- *)

SpecAgent == InitAgent /\ [][NextAgent]_vars

NextRecovery == ApiCanRecover

SpecRecovery == InitApiRecovery /\ [][NextRecovery]_vars

SpecCtl == InitCtl /\ [][NextCtl]_vars

\* The controller in subtask mode with reflection, with a step budget and
\* a retry ceiling large enough for a retry after a context reset.
InitConv ==
  /\ driver = "ctl"
  /\ InitPlanVars
  /\ InitRecVars
  /\ max_recovery_attempts = 0
  /\ pc = "idle"
  /\ step_count = 0
  /\ max_steps = MaxConvSteps
  /\ is_completed = FALSE
  /\ run_result = "none"
  /\ saved = "none"
  /\ InitAgentVars
  /\ InitToolVars
  /\ InitPureVars
  /\ reflection_on \in BOOLEAN
  /\ max_retries = (IF reflection_on THEN MaxConvRetries ELSE 0)
  /\ is_failed = FALSE
  /\ c_sub = 0
  /\ attempt = 0
  /\ subtask_steps = 0
  /\ max_subtask_steps = 0
  /\ subtask_done = FALSE
  /\ subtask_actions = 0
  /\ actions_before = 0
  /\ sub_success = FALSE
  /\ worked_on = {}
  /\ failed_at = 0
  /\ passed = {}
  /\ stop_requested = FALSE
  /\ calls_after_stop = 0
  /\ memory_on \in BOOLEAN
  /\ (~reflection_on => ~memory_on)
  /\ _attempts = [i \in 1..MaxSubtasks |-> 0]
  /\ messages = <<>>
  /\ sent = <<>>

SpecConv == InitConv /\ [][NextCtl]_vars

SpecDirect == InitDirect /\ [][NextDirect]_vars

\* Every run of the agent and of the controller, with each step of the
\* program eventually taken (every collaborator call returns).
InitRuns == InitAgent \/ InitCtl \/ InitDirect

NextRuns == NextAgent \/ NextCtl \/ NextDirect

SpecRuns == InitRuns /\ [][NextRuns]_vars /\ WF_vars(NextRuns)

SpecTools == InitTools /\ [][NextTools]_vars

Init ==
  \/ InitApiPlan
  \/ InitApiRecovery
  \/ InitAgent
  \/ InitCtl
  \/ InitTools
  \/ InitDetect
  \/ InitAnnotate
  \/ InitGround
  \/ InitStrategy
  \/ InitDirect
  \/ InitCache

Next ==
  \/ ApiStart
  \/ ApiAdvance
  \/ ApiCanRecover
  \/ NextAgent
  \/ NextCtl
  \/ NextTools
  \/ NextDetect
  \/ NextAnnotate
  \/ NextGround
  \/ NextStrategy
  \/ NextDirect
  \/ NextCache

Spec == Init /\ [][Next]_vars

(* ----------------------------- properties -------------------------------- *)

InProgressCount == Cardinality({i \in DOMAIN subtasks : subtasks[i] = IN_PROGRESS})

\* C1: once a state-changing tool call has dispatched an input, the mark
\* table is empty until the next annotation, and no click_mark dispatches a
\* click with the coordinates of a table issued before that input.
C1_StaleMarksRejected ==
  driver = "tools" =>
    /\ stale => som_map = {}
    /\ (last_tool.op = "click_mark" /\ last_tool.on_stale)
         => ~last_tool.dispatched

\* C2: within a step of the agent the number of recovery attempts never
\* exceeds the configured ceiling max_recovery_attempts.
C2_RecoveryCeiling ==
  driver = "agent" => recovery_attempts <= max_recovery_attempts

\* A step that has used every attempt the ceiling allows and whose last
\* retry failed again.
C2_Witness ==
  /\ driver = "agent"
  /\ pc = "recover"
  /\ max_recovery_attempts > 0
  /\ recovery_attempts = max_recovery_attempts

\* C3: can_recover(kind, total_attempts) is false exactly when
\* total_attempts >= max_recovery_attempts or kind is permission_denied.
C3_CanRecover ==
  cr_call.op = "can_recover" =>
    (cr_call.ret = FALSE <=>
       (cr_call.total >= max_recovery_attempts
          \/ cr_call.kind = "permission_denied"))

\* can_recover has turned false exactly at a positive ceiling for a kind
\* other than permission_denied.
C3_Witness ==
  /\ cr_call.op = "can_recover"
  /\ cr_call.kind # "permission_denied"
  /\ max_recovery_attempts > 0
  /\ cr_call.total = max_recovery_attempts
  /\ cr_call.ret = FALSE

C5_FalseExactlyAtLast ==
  plan_call.op = "advance" =>
    /\ plan_call.ret = FALSE <=> plan_call.pre_index = plan_call.pre_len - 1
    /\ plan_call.ret =>
         /\ current_index + 1 \in DOMAIN subtasks
         /\ subtasks[current_index + 1] = IN_PROGRESS

\* C5 amended: advance() returns false exactly when no subtask follows
\* current_index at the time of the call (it refers to the last subtask, or
\* the plan is empty, or the index is already past the end); otherwise it
\* returns true and the subtask at the new current_index is InProgress.
C5_FalseWhenNoneFollows ==
  plan_call.op = "advance" =>
    /\ plan_call.ret = FALSE <=> plan_call.pre_index >= plan_call.pre_len - 1
    /\ plan_call.ret =>
         /\ current_index + 1 \in DOMAIN subtasks
         /\ subtasks[current_index + 1] = IN_PROGRESS

\* advance() has been called with the index already past the end and has
\* returned false.
C5_Witness ==
  /\ plan_call.op = "advance"
  /\ plan_call.pre_len > 0
  /\ plan_call.pre_index >= plan_call.pre_len
  /\ plan_call.ret = FALSE

\* C6: when subtask k of a plan run by the controller fails, run returns
\* false, every subtask before k is Completed, k is Failed, and every
\* subtask after k is Pending and was never started nor worked on.
C6_FailureStopsPlan ==
  (driver = "ctl" /\ pc = "returned" /\ failed_at # 0) =>
    /\ run_result = "false"
    /\ \A i \in DOMAIN subtasks :
         /\ i < failed_at => subtasks[i] = COMPLETED
         /\ i = failed_at => subtasks[i] = FAILED
         /\ i > failed_at => subtasks[i] = PENDING /\ i \notin worked_on

\* The second of three subtasks has failed after its reflection retries.
C6_Witness ==
  /\ driver = "ctl"
  /\ pc = "returned"
  /\ Len(subtasks) = 3
  /\ failed_at = 2
  /\ reflection_on
  /\ max_retries > 0
  /\ attempt = max_retries

\* C7: when the planner returned Done or the verifier reported task
\* completion in a step of the agent's run, the run ends with status
\* Completed and returns true.
C7_CompletionEndsCompleted ==
  (driver = "agent" /\ pc = "returned" /\ completion_reported) =>
    (run_result = "true" /\ status = "completed")

\* C8: when every subtask of the plan passed its reflection verification,
\* the controller's run returns true with the completion flag set.
C8_AllPassedReturnsTrue ==
  (driver = "ctl" /\ pc = "returned" /\ passed = DOMAIN subtasks) =>
    (run_result = "true" /\ is_completed)

\* C9: in a step whose planning call failed no recovery is attempted:
\* recovery_attempts stays 0 and no ErrorEvent is recorded.
C9_PlanFailureNoRecovery ==
  (driver = "agent" /\ first_plan_failed) =>
    (recovery_attempts = 0 /\ error_count = events_at_step_start)

\* C10: an exception raised by a collaborator during a step does not leave
\* run, and is recorded as an ErrorEvent of kind unknown.
C10_ExceptionsRecorded ==
  (driver = "agent" /\ exc_raised \in {"capture", "verifier"}) =>
    (run_result # "raised" /\ last_error.error_type = "unknown")

\* C11: after a stop request the controller's subtask loop begins no new
\* step: at most the step in progress when the request arrives makes a
\* model call.
C11_StopAtStepBoundary ==
  driver = "ctl" => calls_after_stop <= 1

RECURSIVE MergeAgainstKept(_, _)
\* The merge as C12 states it: a page-source element is appended when it
\* overlaps no element already kept.
MergeAgainstKept(kept, cdp) ==
  IF cdp = <<>> THEN kept
  ELSE MergeAgainstKept(
         IF _overlaps_any(Head(cdp), kept) THEN kept ELSE Append(kept, Head(cdp)),
         Tail(cdp))

\* C12: when both sources return elements, detect returns every
\* accessibility-source element plus exactly the page-source elements whose
\* IoU with every element already kept is below 0.5.
C12_DedupAgainstKept ==
  (driver = "detect" /\ merged.op = "detect"
     /\ uia_elements # <<>> /\ cdp_elements # <<>>) =>
    merged.out = MergeAgainstKept(uia_elements, cdp_elements)

Unmarked(elem) == [elem EXCEPT !.mark_id = 0]

\* a is not below b, nor to the right of b on the same row.
NotAfter(a, b) ==
  \/ a.bounding_rect.top < b.bounding_rect.top
  \/ /\ a.bounding_rect.top = b.bounding_rect.top
     /\ a.bounding_rect.left <= b.bounding_rect.left

\* C13: the mark ids annotate assigns are exactly 1..n with n <= max_marks,
\* the marked elements are retained elements in top-to-bottom then
\* left-to-right order (the first n of them in that order), and the table
\* maps each id to the element carrying that id.
C13_SequentialIdsInReadingOrder ==
  (driver = "annotate" /\ mark_map.op = "annotate") =>
    LET out == mark_map.out
        n == Cardinality(DOMAIN out)
        retained == SelectSeq(ann_elements,
                      LAMBDA e : PassesFilter(e, ScreenSize, ScreenSize))
    IN /\ DOMAIN out = 1..n
       /\ n <= max_marks
       /\ n = Min(max_marks, Len(retained))
       /\ \A k \in DOMAIN out : out[k].mark_id = k
       /\ \A j \in DOMAIN out, k \in DOMAIN out :
            j < k => NotAfter(out[j], out[k])
       /\ \A k \in DOMAIN out :
            \E p \in DOMAIN retained : retained[p] = Unmarked(out[k])
       /\ \A p \in DOMAIN retained :
            (\A k \in DOMAIN out : Unmarked(out[k]) # retained[p])
              => NotAfter(out[n], retained[p])

\* Two elements were marked, in the reverse of the order they were given in.
C13_Witness ==
  /\ driver = "annotate"
  /\ mark_map.op = "annotate"
  /\ DOMAIN mark_map.out = {1, 2}
  /\ Len(ann_elements) = 2
  /\ Unmarked(mark_map.out[1]) = ann_elements[2]
  /\ ann_elements[1] # ann_elements[2]

\* The element occupies no pixel of a screenshot sw wide and sh high: its
\* columns left..right-1 or its rows top..bottom-1 miss 0..sw-1 or 0..sh-1.
FullyOutside(r, sw, sh) ==
  r.right <= 0 \/ r.bottom <= 0 \/ r.left >= sw \/ r.top >= sh

\* C14: no element is given a mark if its width or height is below the
\* minimum size, if it lies fully outside the screenshot, or if it is
\* disabled or invisible.
C14_NoMarkForFiltered ==
  (driver = "annotate" /\ mark_map.op = "annotate") =>
    \A k \in DOMAIN mark_map.out :
      LET e == mark_map.out[k] IN
        /\ width(e.bounding_rect) >= min_element_size
        /\ height(e.bounding_rect) >= min_element_size
        /\ ~FullyOutside(e.bounding_rect, ScreenSize, ScreenSize)
        /\ e.is_enabled
        /\ e.is_visible

\* the score of every candidate ground looked at is below 0.3
NoCandidateReaches(tenths) ==
  \A i \in 1..Len(g_scores) :
    g_scores[i] # <<>> => 10 * g_scores[i][1].score < tenths * One

\* the eligible elements of the tree within the fallback radius of the
\* description's coordinates
EligibleInRadius ==
  {e \in {g_tree[i] : i \in 1..Len(g_tree)} :
     /\ e.is_visible /\ e.is_enabled /\ e.bounding_rect # <<>>
     /\ Distance2(e, g_desc.approximate_coords[1], g_desc.approximate_coords[2])
          <= FallbackRadius * FallbackRadius}

\* C15: when no candidate scores 0.3 or more, the description has
\* approximate coordinates and an eligible element lies within the fallback
\* radius of them, ground succeeds with the method spatial_fallback and
\* returns the nearest of those elements.
C15_SpatialFallbackSucceeds ==
  (/\ driver = "ground"
   /\ g_result.op = "ground"
   /\ NoCandidateReaches(3)
   /\ g_desc.approximate_coords # <<>>
   /\ EligibleInRadius # {})
  => /\ success(g_result.out)
     /\ g_result.out.match_method = <<"spatial_fallback">>
     /\ \E e \in EligibleInRadius :
          /\ g_result.out.element = <<e>>
          /\ \A f \in EligibleInRadius :
               Distance2(e, g_desc.approximate_coords[1], g_desc.approximate_coords[2])
                 <= Distance2(f, g_desc.approximate_coords[1],
                              g_desc.approximate_coords[2])

\* the tree has one eligible element, a Button with the description's name,
\* and the description asks for a "button"
OneNamedButton ==
  /\ driver = "ground"
  /\ g_desc.name # <<>>
  /\ g_desc.control_type = <<"b", "u", "t", "t", "o", "n">>
  /\ Cardinality({i \in 1..Len(g_tree) :
                    /\ g_tree[i].is_visible /\ g_tree[i].is_enabled
                    /\ g_tree[i].bounding_rect # <<>>}) = 1
  /\ \E i \in 1..Len(g_tree) :
       /\ g_tree[i].is_visible /\ g_tree[i].is_enabled
       /\ g_tree[i].bounding_rect # <<>>
       /\ g_tree[i].control_type = "BUTTON"
       /\ g_tree[i].name = g_desc.name

\* C16: with exactly one eligible element, a Button whose name equals the
\* name of the description, and the type hint "button", ground returns that
\* element with a confidence of at least 0.5 and a method tag that has the
\* part "name".
C16_NamedButtonGrounded ==
  (OneNamedButton /\ g_result.op = "ground")
  => /\ \E i \in 1..Len(g_tree) :
          /\ g_tree[i].is_visible /\ g_tree[i].is_enabled
          /\ g_tree[i].bounding_rect # <<>>
          /\ g_result.out.element = <<g_tree[i]>>
     /\ 2 * g_result.out.confidence >= One
     /\ \E k \in 1..Len(g_result.out.match_method) :
          g_result.out.match_method[k] = "name"

C16_Witness ==
  /\ OneNamedButton
  /\ g_result.op = "ground"
  /\ Len(g_tree) = 2
  /\ g_result.out.element # <<>>

SameButName(i, j) ==
  /\ g_scores[i] # <<>>
  /\ g_scores[j] # <<>>
  /\ [g_tree[i] EXCEPT !.name = <<>>] = [g_tree[j] EXCEPT !.name = <<>>]
  /\ _name_similarity(g_tree[i].name, g_desc.text_content)
       = _name_similarity(g_tree[j].name, g_desc.text_content)

\* C18: of two candidates that differ only in how similar their names are
\* to the description's name, the one with the higher name similarity never
\* has the lower score, on either side of the 0.5 gate.
C18_ScoreMonotoneInNameSimilarity ==
  (driver = "ground" /\ g_result.op = "ground")
  => \A i, j \in 1..Len(g_scores) :
       (/\ SameButName(i, j)
        /\ _name_similarity(g_tree[i].name, g_desc.name)
             <= _name_similarity(g_tree[j].name, g_desc.name))
       => g_scores[i][1].score <= g_scores[j][1].score

C18_Witness ==
  /\ driver = "ground"
  /\ g_result.op = "ground"
  /\ \E i, j \in 1..Len(g_scores) :
       /\ SameButName(i, j)
       /\ 2 * _name_similarity(g_tree[i].name, g_desc.name) <= SimOne
       /\ 2 * _name_similarity(g_tree[j].name, g_desc.name) > SimOne
       /\ g_scores[i][1].score < g_scores[j][1].score

PopupBlockingView ==
  <<"p", "o", "p", "u", "p", " ", "b", "l", "o", "c", "k", "i", "n", "g", " ",
    "v", "i", "e", "w">>

\* C19: for a failed click whose verification text is "popup blocking view"
\* analyze_error returns popup_blocked, and the first call
\* get_recovery_strategy(popup_blocked, action, 0) on a fresh planner returns
\* the strategy dismiss_with_escape.
C19_PopupScenario ==
  driver = "strategy" =>
    /\ (/\ ae_call.op = "analyze_error"
        /\ ae_call.action = "click"
        /\ ae_call.issues = PopupBlockingView
        /\ ae_call.observation = <<>>)
       => ae_call.ret = "popup_blocked"
    /\ (/\ gs_call.op = "get_recovery_strategy"
        /\ gs_call.fresh
        /\ gs_call.kind = "popup_blocked"
        /\ gs_call.attempt = 0)
       => gs_call.ret = "dismiss_with_escape"

C19_Witness ==
  /\ driver = "strategy"
  /\ ae_call.op = "analyze_error"
  /\ ae_call.action = "click"
  /\ ae_call.issues = PopupBlockingView
  /\ ae_call.observation = <<>>
  /\ gs_call.op = "get_recovery_strategy"
  /\ gs_call.fresh
  /\ gs_call.kind = ae_call.ret
  /\ gs_call.attempt = 0
  /\ gs_call.ret = "dismiss_with_escape"

\* the max_retries of the strategy of a kind with the given name
MaxRetriesOf(key) ==
  LET strategies == StrategiesFor(key[1])
      i == CHOOSE k \in 1..Len(strategies) : strategies[k].name = key[2]
  IN strategies[i].max_retries

\* C20: over any sequence of get_recovery_strategy calls, no strategy of an
\* error kind is returned more often than its own max_retries.
C20_StrategyRetriesBounded ==
  driver = "strategy" =>
    \A key \in StrategyKeys : returned[key] <= MaxRetriesOf(key)

\* C29: every element ground returns, by scoring or by the spatial
\* fallback, is visible, enabled and has a bounding rect.
C29_ReturnedElementEligible ==
  (driver = "ground" /\ g_result.op = "ground" /\ g_result.out.element # <<>>)
  => /\ g_result.out.element[1].is_visible
     /\ g_result.out.element[1].is_enabled
     /\ g_result.out.element[1].bounding_rect # <<>>

\* the names of the strategies of a kind whose counter is below max_retries
WithRetriesLeft(kind, counts) ==
  {StrategiesFor(kind)[i].name : i \in
     {k \in 1..Len(StrategiesFor(kind)) :
        counts[<<kind, StrategiesFor(kind)[k].name>>] < StrategiesFor(kind)[k].max_retries}}

\* C21: get_recovery_strategy returns none exactly when every strategy of
\* the error kind is exhausted; while some strategy of the kind has retries
\* left, the strategy returned is one with retries left.
C21_NoneExactlyWhenExhausted ==
  [][(driver = "strategy" /\ gs_calls' # gs_calls)
       => /\ (gs_call'.ret = "none") <=> (WithRetriesLeft(gs_call'.kind, attempt_counts) = {})
          /\ WithRetriesLeft(gs_call'.kind, attempt_counts) # {}
               => gs_call'.ret \in WithRetriesLeft(gs_call'.kind, attempt_counts)]_vars

\* the positions of run inside a loop iteration that executes a step
InStep == {"capture", "plan", "exec", "verify", "step_ret", "recover", "step_end"}

\* C22: every loop iteration of run that executes a step increases
\* step_count by exactly 1, however many recovery sub-attempts the step
\* contains, and recovery_attempts is 0 when a step starts.
C22_StepCountedOnce ==
  driver = "agent" =>
    /\ pc \in {"loop", "check_subtask", "returned"} => step_count = steps_begun
    /\ pc \in InStep => step_count + 1 = steps_begun
    /\ (pc = "capture" /\ call_site = "first") => recovery_attempts = 0

\* a step with two recovery sub-attempts has been counted
C22_Witness ==
  /\ driver = "agent"
  /\ pc = "loop"
  /\ step_count = 1
  /\ steps_begun = 1
  /\ error_count = 2

\* the last subtask of the plan was advanced past (advance returned False)
PlanExhausted == plan_call.op = "advance" /\ ~plan_call.ret

\* C23: a run of the agent ended by an external stop, without the planner
\* or the verifier having reported completion, does not return true and is
\* not saved as a successful session.
C23_StopNotCompleted ==
  (driver = "agent" /\ pc = "returned" /\ agent_stopped
     /\ ~completion_reported /\ ~PlanExhausted) =>
    (run_result # "true" /\ saved # "true")

\* C24: when the verification of a step reported issues and error recovery
\* is enabled, an ErrorEvent has been appended to the error history by the
\* end of the step, whether or not recovery was permitted or had a strategy.
C24_ErrorEventAlways ==
  (driver = "agent" /\ pc = "step_end" /\ step_issues /\ error_recovery_on)
    => error_count > events_at_step_start

\* the first _execute_step call of a step has returned False because
\* executor.execute returned False
ExecutorFailed ==
  /\ pc = "step_ret"
  /\ call_site = "first"
  /\ status = "executing"
  /\ ~step_success

\* C25: when the executor reports failure for the planned action of a step
\* and error recovery is enabled, the step goes on to the recovery loop, on
\* the first step of a run as on a later one.
C25_ExecFailureRecovered ==
  [][(driver = "agent" /\ ExecutorFailed /\ error_recovery_on /\ pc' # pc)
       => pc' = "recover"]_vars

\* C27: within a step, execution starts only when planning has finished
\* and verification only when execution has finished and the action was
\* dispatched; a recovery sub-attempt starts only from the recovery loop,
\* which is entered only when the previous _execute_step call has returned.
C27_StepOrdering ==
  [][driver = "agent" =>
       /\ (pc' = "exec" /\ pc # "exec") => (pc = "plan" /\ planned' # "none")
       /\ (pc' = "verify" /\ pc # "verify")
            => (pc = "exec" /\ planned # "none" /\ last_action' = planned)
       /\ (pc' = "capture" /\ call_site' = "retry" /\ pc # "capture")
            => pc = "recover"
       /\ (pc' = "recover" /\ pc # "recover") => pc = "step_ret"]_vars

\* the second recovery sub-attempt of a step is being verified
C27_Witness ==
  /\ driver = "agent"
  /\ pc = "verify"
  /\ call_site = "retry"
  /\ recovery_attempts = 2

\* C28: when a step of the control loop starts, every per-(kind, strategy)
\* retry counter of the recovery planner is zero.
C28_CountersZeroAtStepStart ==
  (driver = "agent" /\ pc = "capture" /\ call_site = "first") =>
    \A key \in StrategyKeys : attempt_counts[key] = 0

\* C30: without a reflection workflow, the attempt at the first subtask in
\* which the model called task_complete (no stop was requested) is
\* reported as successful by _execute_subtask_with_reflection.
C30_TaskCompleteMeansSubtaskDone ==
  (driver = "ctl" /\ pc = "sub_result" /\ ~reflection_on /\ c_sub = 1
     /\ ~stop_requested /\ subtask_done) => sub_success

\* C26: when the controller has finished a subtask with reflection enabled
\* (_execute_subtask_with_reflection returned), with or without a memory
\* manager, no attempt record remains for that subtask.
C26_AttemptsClearedPerSubtask ==
  (driver = "ctl" /\ pc = "sub_result" /\ reflection_on) => _attempts[c_sub] = 0

\* C26, with a memory manager configured
C26_ClearedWithMemory ==
  (driver = "ctl" /\ pc = "sub_result" /\ reflection_on /\ memory_on)
    => _attempts[c_sub] = 0

\* C31: in subtask mode the completion flag is false whenever an attempt at
\* a subtask begins (_execute_subtask_actions is entered), no stop having
\* been requested.
C31_FlagClearAtAttemptStart ==
  [][(driver = "ctl" /\ pc = "for_attempt" /\ pc' = "act_loop"
        /\ ~stop_requested)
       => ~is_completed]_vars

\* C32: in a decomposed run that returns true (no stop having been
\* requested), every subtask of the plan is Completed or Skipped.
C32_TrueMeansPlanDone ==
  (driver \in {"agent", "ctl"} /\ pc = "returned" /\ run_result = "true"
     /\ subtasks # <<>> /\ ~agent_stopped /\ ~stop_requested) =>
    \A i \in DOMAIN subtasks : subtasks[i] \in {COMPLETED, SKIPPED}

\* C32 for the controller alone
C32_ControllerTrueMeansPlanDone ==
  driver = "ctl" => C32_TrueMeansPlanDone

\* C38: a click_mark call whose mark id is not in the current mark table
\* dispatches no input and leaves the mark table as it was.
C38_UnknownMarkLeavesTable ==
  [][(driver = "tools" /\ last_tool'.op = "click_mark"
        /\ som_map # {} /\ last_tool'.mark_id # 0
        /\ last_tool'.mark_id \notin som_map)
       => (~last_tool'.dispatched /\ som_map' = som_map)]_vars

\* the pre-actions of the strategy of a kind with the given name
PreActionsOf(kind, name) ==
  LET strategies == StrategiesFor(kind)
      i == CHOOSE k \in 1..Len(strategies) : strategies[k].name = name
  IN strategies[i].pre_actions

\* a step of the agent in which executor.execute is called: by
\* _execute_step for the planned action, or by execute_recovery for the
\* pre-actions of the strategy just obtained
CallsExecutor ==
  \/ pc = "exec" /\ pc' # "exec"
  \/ /\ pc = "recover"
     /\ recovery_attempts' = recovery_attempts + 1
     /\ PreActionsOf(last_error'.error_type, last_error'.recovery_strategy) # <<>>

\* C34: once the completion flag of a run of the agent is set (by the
\* planner, the verifier or the plan, not by a stop), no further action is
\* handed to the input executor in that run.
C34_NoDispatchAfterCompletion ==
  [][(driver = "agent" /\ is_completed /\ ~agent_stopped) => ~CallsExecutor]_vars

\* C36: when the recovery loop is entered after the first _execute_step
\* call of a step, the verification record it classifies was produced by
\* that call: the step's own verification reported the issues.
C36_RecoveryUsesOwnVerification ==
  (driver = "agent" /\ pc = "recover" /\ call_site = "first") => step_issues

\* C35: when the controller's run returns normally (no stop having been
\* requested), the success value saved to the memory session is the boolean
\* run returns.
C35_SavedEqualsReturned ==
  (driver = "ctl" /\ pc = "returned" /\ ~stop_requested) => saved = run_result

\* a run has ended: run returned or raised
Terminated == pc \in {"returned", "raised"}

\* C39: every run of the agent and of the controller (direct mode, subtask
\* mode with reflection retries) terminates, and step_count never exceeds
\* max_steps during the run.
C39_RunsTerminateWithinBudget ==
  /\ [](step_count <= max_steps)
  /\ <>Terminated

\* a controller run in subtask mode that used its whole budget and made a
\* reflection retry has returned
C39_Witness ==
  /\ driver = "ctl"
  /\ pc = "returned"
  /\ step_count = max_steps
  /\ attempt >= 1

\* a conversation whose first message has the user role and in which every
\* tool-result message follows the assistant message with its tool calls
WellFormed(msgs) ==
  /\ msgs # <<>> => msgs[1] \in UserKinds
  /\ \A i \in DOMAIN msgs :
       msgs[i] = "tool_result" => (i > 1 /\ msgs[i - 1] = "assistant_tool")

\* C37: after any sequence of subtask attempts, reflection hints and
\* context resets, the conversation given to a model call is well-formed.
C37_ConversationWellFormed ==
  driver = "ctl" => WellFormed(sent)

\* C33: a get(name') answers for the latest set(name, coords) still in
\* force whose name equals name' up to letter case and surrounding
\* whitespace: it returns coords while the age of the entry does not exceed
\* the TTL; once the age exceeds the TTL it returns nothing and the cache
\* holds no entry for the name any more.
C33_CacheRoundTrip ==
  (driver = "cache" /\ ec_call.op = "get") =>
    \A s \in ec_call.in_force :
      SameName(s.name, ec_call.name) =>
        IF ec_call.at - s.at <= ttl_seconds
          THEN ec_call.ret = s.coords
          ELSE /\ ec_call.ret = NoCoords
               /\ \A i \in DOMAIN _cache : ~SameName(_cache[i].raw, ec_call.name)

\* a get under another spelling of the name returned the stored coordinates
C33_Witness ==
  /\ driver = "cache"
  /\ ec_call.op = "get"
  /\ ec_call.ret # NoCoords
  /\ \E s \in ec_call.in_force :
       /\ SameName(s.name, ec_call.name)
       /\ s.name # ec_call.name
       /\ ec_call.ret = s.coords
       /\ ec_call.at - s.at = ttl_seconds

\* a get found the entry for its name older than the TTL
C33_ExpiredWitness ==
  /\ driver = "cache"
  /\ ec_call.op = "get"
  /\ ec_call.ret = NoCoords
  /\ \E s \in ec_call.in_force :
       /\ SameName(s.name, ec_call.name)
       /\ ec_call.at - s.at > ttl_seconds

====
